---- MODULE Spec2Model ----
(***************************************************************************)
(* Rule evaluation engine of SOP-Generalization: condition evaluator,      *)
(* score aggregation, feedback selection, step classification and the      *)
(* per-phase loop of RuleEngine.analyze.                                   *)
(*                                                                         *)
(* Conventions.  A Python dict is a TLA+ function whose DOMAIN is the set  *)
(* of its keys (d.get(k, x) is Get(d, k, x)); a dict whose insertion order *)
(* is observable is a sequence of [k, v] entries.  A call that may raise   *)
(* yields a record [exc, val]: exc = "none" for a normal return.  Numbers  *)
(* are integers; a float quotient is an exact rational [n, d] in lowest    *)
(* terms.  A JSON value that may be a number or a list is tagged.          *)
(***************************************************************************)
EXTENDS Integers, Sequences, FiniteSets, TLC

VARIABLES
    rule_set,     \* RuleEngine.rule_set: [inputs, phases, rules]
    plugin,       \* RuleEngine.plugin: what its compute_* methods yield per phase id
    student,      \* the student argument of analyze, a skeleton sequence
    coach,        \* the coach argument of analyze
    context,      \* the context argument of analyze
    pc,           \* position of the running call
    locals,       \* analyze's locals student_p, coach_p
    phase_idx,    \* index of the next phase of the loop in analyze
    all_results,  \* analyze's local all_results (a dict in insertion order)
    evaluated,    \* the rule_results list of every loop iteration so far
    call,         \* a direct call of a function: [fn, ...arguments]
    ret,          \* what the call returned or raised
    plugin_registry  \* PluginRegistry._registry (a dict in insertion order)

vars == <<rule_set, plugin, student, coach, context, pc, locals, phase_idx,
          all_results, evaluated, call, ret, plugin_registry>>

inputs == <<rule_set, plugin, student, coach, context>>

----------------------------------------------------------------------------
(* Python values *)

Ok(v) == [exc |-> "none", val |-> v]

Raise(e) == [exc |-> e, val |-> "no value"]

Get(d, k, default) == IF k \in DOMAIN d THEN d[k] ELSE default

\* the rest F of a computation after a call that may raise
Then(r, F(_)) == IF r.exc # "none" THEN r ELSE F(r.val)

Num(n) == [tag |-> "num", n |-> n]

List(s) == [tag |-> "list", items |-> s]

Abs(x) == IF x < 0 THEN -x ELSE x

RECURSIVE Gcd(_, _)
Gcd(a, b) == IF b = 0 THEN a ELSE Gcd(b, a % b)

\* the float a / b of two integers (b # 0), as an exact rational
Rat(a, b) ==
    LET s == IF b < 0 THEN -1 ELSE 1
        g == Gcd(Abs(a), Abs(b))
    IN  [n |-> (s * a) \div g, d |-> (s * b) \div g]

RECURSIVE SumSeq(_)
SumSeq(s) == IF s = <<>> THEN 0 ELSE Head(s) + SumSeq(Tail(s))

\* [x for x in s if Test(x)]
Filter(s, Test(_)) == SelectSeq(s, Test)

\* the set of elements of a sequence
Range(s) == {s[i] : i \in 1..Len(s)}

\* all(...) and any(...) over a sequence of booleans
PyAll(bs) == \A i \in 1..Len(bs) : bs[i]

PyAny(bs) == \E i \in 1..Len(bs) : bs[i]

\* s[-n:] for n >= 1
LastN(s, n) == IF n >= Len(s) THEN s ELSE SubSeq(s, Len(s) - n + 1, Len(s))

\* Python's round(a / b) for b > 0: to the nearest integer, a tie to the even one
PyRound(a, b) ==
    LET q == a \div b
        r == a % b
    IN  IF 2 * r < b THEN q
        ELSE IF 2 * r > b THEN q + 1
        ELSE IF q % 2 = 0 THEN q ELSE q + 1

\* str.strip() on the strings of the model
Strip(s) ==
    CASE s = " "   -> ""
      [] s = " e1" -> "e1"
      [] s = " a " -> "a"
      [] OTHER     -> s

\* d[k] = v on a dict kept in insertion order: a key already present keeps its place
DictPut(d, k, v) ==
    IF \E i \in 1..Len(d) : d[i].k = k
    THEN [i \in 1..Len(d) |-> IF d[i].k = k THEN [k |-> k, v |-> v] ELSE d[i]]
    ELSE Append(d, [k |-> k, v |-> v])

RECURSIVE DictFrom(_, _)
\* {ks[i]: vs[i] for i in range(len(ks))}
DictFrom(ks, vs) ==
    IF ks = <<>> THEN <<>>
    ELSE DictPut(DictFrom(SubSeq(ks, 1, Len(ks) - 1), SubSeq(vs, 1, Len(vs) - 1)),
                 ks[Len(ks)], vs[Len(vs)])

Keys(d) == [i \in 1..Len(d) |-> d[i].k]

\* list(range(a, b + 1))
RangeList(a, b) == IF b < a THEN <<>> ELSE [i \in 1..(b - a + 1) |-> a + i - 1]

Min(a, b) == IF a <= b THEN a ELSE b

Max(a, b) == IF a >= b THEN a ELSE b

\* sequences over S of length at most n
SeqUpTo(S, n) == UNION {[1..k -> S] : k \in 0..n}

----------------------------------------------------------------------------
(* evaluator.py *)

ConditionResult(cond_id, passed, value) == [id |-> cond_id, passed |-> passed, value |-> value]

\* _cmp with the comparisons of gte and lte exchanged
CmpExchanged(op, lhs, rhs) ==
    CASE op = "gte" -> Ok(lhs <= rhs)
      [] op = "gt"  -> Ok(lhs > rhs)
      [] op = "lte" -> Ok(lhs >= rhs)
      [] op = "lt"  -> Ok(lhs < rhs)
      [] op = "eq"  -> Ok(lhs = rhs)
      [] op = "neq" -> Ok(lhs # rhs)
      [] OTHER      -> Raise("ValueError")

_cmp(op, lhs, rhs) ==
    CASE op = "gte" -> Ok(lhs >= rhs)
      [] op = "gt"  -> Ok(lhs > rhs)
      [] op = "lte" -> Ok(lhs <= rhs)
      [] op = "lt"  -> Ok(lhs < rhs)
      [] op = "eq"  -> Ok(lhs = rhs)
      [] op = "neq" -> Ok(lhs # rhs)
      [] OTHER      -> Raise("ValueError")

_as_number(val) == IF val.tag = "num" THEN Ok(val.n) ELSE Raise("TypeError")

\* lhs is a number; cond a condition dict with a "type" key
_evaluate_numeric_condition(lhs0, cond) ==
    LET abs_val == Get(cond, "abs_val", FALSE)
        tol == Get(cond, "tolerance", 0)
        lhs == IF abs_val THEN Abs(lhs0) ELSE lhs0
    IN
    IF "op" \notin DOMAIN cond THEN Raise("KeyError")
    ELSE LET op == cond.op IN
    IF cond.type = "range" THEN
        IF "value" \notin DOMAIN cond THEN Raise("KeyError")
        ELSE IF cond.value.tag # "list" THEN Raise("TypeError")
        ELSE IF Len(cond.value.items) # 2 THEN Raise("ValueError")
        ELSE LET lower == cond.value.items[1]
                 upper == cond.value.items[2]
             IN  Ok(lower - tol <= lhs /\ lhs <= upper + tol)
    ELSE IF "value" \notin DOMAIN cond THEN Raise("KeyError")
    ELSE LET t == _as_number(cond.value) IN
    IF t.exc # "none" THEN t
    ELSE LET target == t.val IN
    IF op \in {"gte", "gt"} THEN _cmp(op, lhs, target - tol)
    ELSE IF op \in {"lte", "lt"} THEN _cmp(op, lhs, target + tol)
    ELSE IF op = "eq" THEN Ok(Abs(lhs - target) <= tol)
    ELSE IF op = "neq" THEN Ok(Abs(lhs - target) > tol)
    ELSE IF op = "between" THEN Raise("TypeError")  \* cond["value"][0] of a number
    ELSE _cmp(op, lhs, target)

\* a skeleton array is [size, angle, dist]: its element count and, abstracting
\* the geometry, the per-frame angle and distance series of the joints a
\* condition names; None and an empty array (size 0) are treated alike by
\* every test the evaluator makes
NoData == [size |-> 0, angle |-> <<>>, dist |-> <<>>]

_as_series(values) == Ok(values)

\* the mean of a non-empty series (the model's series have an integral mean)
_representative(values) ==
    IF Len(values) = 0 THEN Raise("ValueError") ELSE Ok(SumSeq(values) \div Len(values))

_windowed_series(series, cond, ctx) ==
    LET wf_bad == "window_frames" \in DOMAIN cond /\ cond.window_frames < 1
        r1 == IF "window_frames" \in DOMAIN cond /\ ~wf_bad
              THEN LastN(series, cond.window_frames) ELSE series
    IN
    IF wf_bad THEN Raise("ValueError")
    ELSE IF "window_ms" \notin DOMAIN cond THEN
        (IF Len(r1) < 2 THEN Raise("ValueError") ELSE Ok(r1))
    ELSE IF Len(cond.window_ms) # 2 THEN Raise("ValueError")
    ELSE IF "expected_fps" \notin DOMAIN ctx THEN Raise("ValueError")
    ELSE LET duration_ms == Abs(cond.window_ms[2] - cond.window_ms[1])
             n == PyRound(duration_ms * ctx.expected_fps, 1000)
             count == IF n > 2 THEN n ELSE 2
             r2 == LastN(r1, count)
         IN  IF Len(r2) < 2 THEN Raise("ValueError") ELSE Ok(r2)

_angle_series(data, joints) ==
    IF data.size = 0 THEN Raise("ValueError")
    ELSE IF Len(joints) \in {2, 3} THEN Ok(data.angle)
    ELSE Raise("ValueError")

_distance_series(data, pair) ==
    IF data.size = 0 THEN Raise("ValueError")
    ELSE IF Len(pair) # 2 THEN Raise("ValueError")
    ELSE Ok(data.dist)

\* np.abs(a - b), elementwise
AbsDiff(a, b) == [i \in 1..Len(a) |-> Abs(a[i] - b[i])]

\* the shared tail of the angle and distance branches: stu is the student's
\* series (or the exception computing it raised)
GeometricCondition(cond, stu, coach_data, CoachSeries(_)) ==
    Then(stu, LAMBDA stu_series :
    Then(IF coach_data.size > 0 THEN CoachSeries(coach_data) ELSE Ok(<<>>), LAMBDA coa_series :
    Then(IF coach_data.size > 0
         THEN _representative(AbsDiff(stu_series, coa_series))
         ELSE _representative(stu_series), LAMBDA lhs :
    Then(_evaluate_numeric_condition(lhs, cond), LAMBDA passed :
    Ok(ConditionResult(Get(cond, "id", "None"), passed, lhs))))))

\* the trend verdict with a zero delta counted as a change
TrendResultNonStrict(cond, windowed) ==
    LET delta == windowed[Len(windowed)] - windowed[1]
        op == Get(cond, "op", "None")
    IN  IF op = "increasing" THEN Ok(ConditionResult(Get(cond, "id", "None"), delta >= 0, delta))
        ELSE IF op = "decreasing" THEN Ok(ConditionResult(Get(cond, "id", "None"), delta <= 0, delta))
        ELSE Raise("ValueError")

TrendResult(cond, windowed) ==
    LET delta == windowed[Len(windowed)] - windowed[1]
        op == Get(cond, "op", "None")
    IN  IF op = "increasing" THEN Ok(ConditionResult(Get(cond, "id", "None"), delta > 0, delta))
        ELSE IF op = "decreasing" THEN Ok(ConditionResult(Get(cond, "id", "None"), delta < 0, delta))
        ELSE Raise("ValueError")

\* evaluate_condition reading a metric that was not computed as 0
EvaluateConditionDefaultMetric(cond, metrics, metric_series, ctx, student_data, coach_data) ==
    LET ctype == Get(cond, "type", "None")
        cond_id == Get(cond, "id", "None")
        AngleOf(d) == _angle_series(d, Get(cond, "joints", <<>>))
        DistOf(d) == _distance_series(d, Get(cond, "pair", <<>>))
    IN
    IF ctype \in {"threshold", "range", "boolean"}
       /\ ("metric" \notin DOMAIN cond \/ cond.metric \notin DOMAIN metrics)
    THEN Ok(ConditionResult(cond_id, FALSE, 0))
    ELSE IF ctype \in {"threshold", "range"} THEN
        Then(_evaluate_numeric_condition(metrics[cond.metric], cond), LAMBDA passed :
        Ok(ConditionResult(cond_id, passed, metrics[cond.metric])))
    ELSE IF ctype = "boolean" THEN
        LET val == metrics[cond.metric] # 0 IN
        IF "op" \notin DOMAIN cond THEN Raise("KeyError")
        ELSE Ok(ConditionResult(cond_id, IF cond.op = "is_true" THEN val ELSE ~val, val))
    ELSE IF ctype = "event_exists" THEN
        LET event_name == Strip(Get(cond, "event", ""))
            events == Get(ctx, "events", << >>)
        IN  IF event_name = "" THEN Raise("ValueError")
            ELSE IF event_name \notin DOMAIN events THEN Raise("KeyError")
            ELSE Ok(ConditionResult(cond_id, TRUE, [event |-> event_name]))
    ELSE IF ctype = "trend" THEN
        IF Get(cond, "metric", "") = "" THEN Raise("ValueError")
        ELSE IF cond.metric \notin DOMAIN metric_series THEN Raise("KeyError")
        ELSE Then(_as_series(metric_series[cond.metric]), LAMBDA series :
             Then(_windowed_series(series, cond, ctx), LAMBDA windowed :
             TrendResult(cond, windowed)))
    ELSE IF ctype = "angle" THEN
        GeometricCondition(cond, AngleOf(student_data), coach_data, AngleOf)
    ELSE IF ctype = "distance" THEN
        GeometricCondition(cond, DistOf(student_data), coach_data, DistOf)
    ELSE Raise("NotImplementedError")

\* metric values are numbers (the plugins yield floats), so _as_number(val) is val
evaluate_condition(cond, metrics, metric_series, ctx, student_data, coach_data) ==
    LET ctype == Get(cond, "type", "None")
        cond_id == Get(cond, "id", "None")
        AngleOf(d) == _angle_series(d, Get(cond, "joints", <<>>))
        DistOf(d) == _distance_series(d, Get(cond, "pair", <<>>))
    IN
    IF ctype \in {"threshold", "range", "boolean"}
       /\ ("metric" \notin DOMAIN cond \/ cond.metric \notin DOMAIN metrics)
    THEN Raise("KeyError")
    ELSE IF ctype \in {"threshold", "range"} THEN
        Then(_evaluate_numeric_condition(metrics[cond.metric], cond), LAMBDA passed :
        Ok(ConditionResult(cond_id, passed, metrics[cond.metric])))
    ELSE IF ctype = "boolean" THEN
        LET val == metrics[cond.metric] # 0 IN
        IF "op" \notin DOMAIN cond THEN Raise("KeyError")
        ELSE Ok(ConditionResult(cond_id, IF cond.op = "is_true" THEN val ELSE ~val, val))
    ELSE IF ctype = "event_exists" THEN
        LET event_name == Strip(Get(cond, "event", ""))
            events == Get(ctx, "events", << >>)
        IN  IF event_name = "" THEN Raise("ValueError")
            ELSE IF event_name \notin DOMAIN events THEN Raise("KeyError")
            ELSE Ok(ConditionResult(cond_id, TRUE, [event |-> event_name]))
    ELSE IF ctype = "trend" THEN
        IF Get(cond, "metric", "") = "" THEN Raise("ValueError")
        ELSE IF cond.metric \notin DOMAIN metric_series THEN Raise("KeyError")
        ELSE Then(_as_series(metric_series[cond.metric]), LAMBDA series :
             Then(_windowed_series(series, cond, ctx), LAMBDA windowed :
             TrendResult(cond, windowed)))
    ELSE IF ctype = "angle" THEN
        GeometricCondition(cond, AngleOf(student_data), coach_data, AngleOf)
    ELSE IF ctype = "distance" THEN
        GeometricCondition(cond, DistOf(student_data), coach_data, DistOf)
    ELSE Raise("NotImplementedError")

\* the composite verdict with logic none read as "not all"
CompositeResultNotAll(cond, refs, results, cond_results_by_id) ==
    LET cond_id == Get(cond, "id", "None")
        logic == Get(cond, "logic", "None")
        value == [rid \in Range(refs) |-> cond_results_by_id[rid].passed]
    IN  IF logic = "all" THEN Ok(ConditionResult(cond_id, PyAll(results), value))
        ELSE IF logic = "any" THEN Ok(ConditionResult(cond_id, PyAny(results), value))
        ELSE IF logic = "none" THEN Ok(ConditionResult(cond_id, ~PyAll(results), value))
        ELSE Raise("ValueError")

CompositeResult(cond, refs, results, cond_results_by_id) ==
    LET cond_id == Get(cond, "id", "None")
        logic == Get(cond, "logic", "None")
        value == [rid \in Range(refs) |-> cond_results_by_id[rid].passed]
    IN  IF logic = "all" THEN Ok(ConditionResult(cond_id, PyAll(results), value))
        ELSE IF logic = "any" THEN Ok(ConditionResult(cond_id, PyAny(results), value))
        ELSE IF logic = "none" THEN Ok(ConditionResult(cond_id, ~PyAny(results), value))
        ELSE Raise("ValueError")

evaluate_composite_condition(cond, cond_results_by_id) ==
    LET refs == Get(cond, "conditions", <<>>)
        missing == Filter(refs, LAMBDA rid : rid \notin DOMAIN cond_results_by_id)
    IN
    IF refs = <<>> THEN Raise("ValueError")
    ELSE IF missing # <<>> THEN Raise("KeyError")
    ELSE CompositeResult(cond, refs,
                         [i \in 1..Len(refs) |-> cond_results_by_id[refs[i]].passed],
                         cond_results_by_id)

RECURSIVE SumValues(_)
\* sum(d.values())
SumValues(d) ==
    IF DOMAIN d = {} THEN 0
    ELSE LET k == CHOOSE x \in DOMAIN d : TRUE
         IN  d[k] + SumValues([x \in DOMAIN d \ {k} |-> d[x]])

PassedFlags(cond_results) == [i \in 1..Len(cond_results) |-> cond_results[i].passed]

\* the weighted mode counting the weight of every condition, passed or not
WeightedScoreOfAll(max_score, weights, cond_results) ==
    LET sum_w == SumValues(weights)
        total_w == IF sum_w # 0 THEN sum_w ELSE 1
        passed_w == SumSeq([i \in 1..Len(cond_results) |-> Get(weights, cond_results[i].id, 0)])
    IN  Rat(max_score * passed_w, total_w)

\* max_score * passed_w / total_w of the weighted mode
WeightedScore(max_score, weights, cond_results) ==
    LET sum_w == SumValues(weights)
        total_w == IF sum_w # 0 THEN sum_w ELSE 1
        passed_w == SumSeq([i \in 1..Len(cond_results) |->
                              IF cond_results[i].passed
                              THEN Get(weights, cond_results[i].id, 0) ELSE 0])
    IN  Rat(max_score * passed_w, total_w)

\* the average mode with the quotient truncated to an integer
AverageScoreTruncated(max_score, cond_results) ==
    Rat((max_score * Len(SelectSeq(cond_results, LAMBDA c : c.passed))) \div Len(cond_results), 1)

\* max_score * passed / len(cond_results) of the average mode
AverageScore(max_score, cond_results) ==
    Rat(max_score * Len(Filter(cond_results, LAMBDA c : c.passed)), Len(cond_results))

\* the score is a float: an exact rational here
aggregate_score(score_cfg, cond_results) ==
    LET mode == Get(score_cfg, "mode", "all-or-nothing")
        pass_score == Get(score_cfg, "pass_score", 1)
        max_score == Get(score_cfg, "max_score", 1)
    IN
    IF cond_results = <<>> THEN Rat(max_score, 1)
    ELSE IF mode = "all-or-nothing" THEN
        (IF PyAll(PassedFlags(cond_results)) THEN Rat(max_score, 1) ELSE Rat(0, 1))
    ELSE IF mode = "average" THEN AverageScore(max_score, cond_results)
    ELSE IF mode = "weighted" THEN
        WeightedScore(max_score, Get(score_cfg, "weights", << >>), cond_results)
    ELSE (IF PyAll(PassedFlags(cond_results)) THEN Rat(pass_score, 1) ELSE Rat(0, 1))

FailedIds(cond_results) ==
    {cond_results[i].id : i \in {j \in 1..Len(cond_results) : ~cond_results[j].passed}}

\* feedback selected only when all of its referenced conditions failed (strict)
SelectFeedbackStrict(rule, cond_results) ==
    SelectSeq(Get(rule, "feedback", <<>>),
              LAMBDA fb : /\ Get(fb, "condition_ids", <<>>) # <<>>
                          /\ Range(Get(fb, "condition_ids", <<>>)) \subseteq FailedIds(cond_results))

select_feedback(rule, cond_results) ==
    Filter(Get(rule, "feedback", <<>>),
           LAMBDA fb : FailedIds(cond_results) \cap Range(Get(fb, "condition_ids", <<>>)) # {})

\* classify_step without the test for the empty list
ClassifyStepNoEmptyTest(rule_results) ==
    IF \A i \in 1..Len(rule_results) : rule_results[i][2] THEN "correct"
    ELSE IF \A i \in 1..Len(rule_results) : ~rule_results[i][2] THEN "wrong"
    ELSE "mid"

\* rule_results: a list of (rule_id, passed)
classify_step(rule_results) ==
    IF rule_results = <<>> THEN "mid"
    ELSE IF \A i \in 1..Len(rule_results) : rule_results[i][2] THEN "correct"
    ELSE IF \A i \in 1..Len(rule_results) : ~rule_results[i][2] THEN "wrong"
    ELSE "mid"

----------------------------------------------------------------------------
(* engine.py *)

\* a list built by calls made in order: the first call that raises ends it
Collect(rs) ==
    LET bad == {i \in 1..Len(rs) : rs[i].exc # "none"} IN
    IF bad # {} THEN Raise(rs[CHOOSE i \in bad : \A j \in bad : i <= j].exc)
    ELSE Ok([i \in 1..Len(rs) |-> rs[i].val])

\* the call evaluator.evaluate_condition(cond, metrics) of _evaluate_rule: the
\* keyword arguments keep their defaults (no series, no context, no frames)
EvaluateRuleCondition(cond, metrics) ==
    evaluate_condition(cond, metrics, << >>, << >>, NoData, NoData)

\* passed computed with any() in place of all()
RulePassedAny(cond_results) ==
    IF cond_results # <<>> THEN PyAny(PassedFlags(cond_results)) ELSE TRUE

\* passed = bool(all(c.passed for c in cond_results)) if cond_results else True
RulePassed(cond_results) ==
    IF cond_results # <<>> THEN PyAll(PassedFlags(cond_results)) ELSE TRUE

\* the dict _evaluate_rule returns
RuleResult(rule, cond_results) ==
    [rule_id |-> Get(rule, "id", "None"),
     label |-> Get(rule, "label", "None"),
     passed |-> RulePassed(cond_results),
     score |-> aggregate_score(Get(rule, "score", << >>), cond_results),
     conditions |-> [i \in 1..Len(cond_results) |->
                       [id |-> cond_results[i].id,
                        passed |-> cond_results[i].passed,
                        value |-> cond_results[i].value]],
     feedback |-> select_feedback(rule, cond_results)]

CondsOf(rule) == Get(rule, "conditions", <<>>)

_evaluate_rule(rule, metrics) ==
    Then(Collect([i \in 1..Len(CondsOf(rule)) |-> EvaluateRuleCondition(CondsOf(rule)[i], metrics)]),
         LAMBDA cond_results : Ok(RuleResult(rule, cond_results)))

\* a skeleton sequence is [len, prep]: its frame count and the preprocessing
\* steps applied to it so far (the transforms themselves are external)
\* _apply_preprocess applying every declared step, known or not
ApplyPreprocessEveryStep(rs, stu, coa) ==
    LET steps == Get(Get(rs, "inputs", << >>), "preprocess", <<>>) IN
    [student_p |-> [len |-> stu.len, prep |-> stu.prep \o steps],
     coach_p |-> [len |-> coa.len, prep |-> coa.prep \o steps]]

_apply_preprocess(rs, stu, coa) ==
    LET steps == Get(Get(rs, "inputs", << >>), "preprocess", <<>>)
        known == Filter(steps, LAMBDA st : st \in {"align_orientation", "normalize_lengths"})
        coach_steps == Filter(steps, LAMBDA st : st = "align_orientation")
    IN  [student_p |-> [len |-> stu.len, prep |-> stu.prep \o known],
         coach_p |-> [len |-> coa.len, prep |-> coa.prep \o coach_steps]]

_ms_to_frame_offset(ms, fps) == PyRound(ms * fps, 1000)

\* _resolve_event_frame taking frame 0 for an event that is not in the context
ResolveEventFrameDefault(event_name, ctx, fps) ==
    LET events == Get(ctx, "events", << >>) IN
    IF event_name \notin DOMAIN events THEN Ok(0)
    ELSE IF events[event_name].tag = "dict" THEN
        IF "frame" \in DOMAIN events[event_name].d THEN Ok(events[event_name].d.frame)
        ELSE Ok(0)
    ELSE Ok(events[event_name].n)

\* an event is a bare frame number Num(n) or a payload [tag |-> "dict", d |-> ...]
_resolve_event_frame(event_name, ctx, fps) ==
    LET events == Get(ctx, "events", << >>) IN
    IF event_name \notin DOMAIN events THEN Raise("KeyError")
    ELSE IF events[event_name].tag = "dict" THEN
        IF "frame" \in DOMAIN events[event_name].d THEN Ok(events[event_name].d.frame)
        ELSE IF "ts_ms" \in DOMAIN events[event_name].d
             THEN Ok(PyRound(events[event_name].d.ts_ms * fps, 1000))
        ELSE Raise("ValueError")
    ELSE Ok(events[event_name].n)

\* the window around event_frame, clamped without the swap of reversed bounds
EventWindowRangeNoSwap(event_frame, window_ms, fps, max_frame) ==
    RangeList(Max(0, event_frame + PyRound(window_ms[1] * fps, 1000)),
              Min(event_frame + PyRound(window_ms[2] * fps, 1000), max_frame))

\* the window around event_frame: swapped if reversed, then clamped
EventWindowRange(event_frame, window_ms, fps, max_frame) ==
    LET a == event_frame + _ms_to_frame_offset(window_ms[1], fps)
        b == event_frame + _ms_to_frame_offset(window_ms[2], fps)
        start == IF a > b THEN b ELSE a
        end == IF a > b THEN a ELSE b
    IN  RangeList(Max(0, start), Min(end, max_frame))

_phase_frame_range(rs, phase, ctx, max_frame) ==
    IF "frame_range" \in DOMAIN phase THEN
        Ok(RangeList(phase.frame_range[1], phase.frame_range[2]))
    ELSE IF "event_window" \in DOMAIN phase THEN
        IF Get(phase.event_window, "event", "") = "" THEN Raise("ValueError")
        ELSE IF Len(Get(phase.event_window, "window_ms", <<>>)) # 2 THEN Raise("ValueError")
        ELSE IF "expected_fps" \notin DOMAIN Get(rs, "inputs", << >>) THEN Raise("ValueError")
        ELSE LET ef == _resolve_event_frame(phase.event_window.event, ctx, rs.inputs.expected_fps)
             IN  IF ef.exc # "none" THEN Raise("ValueError")
                 ELSE Ok(EventWindowRange(ef.val, phase.event_window.window_ms,
                                          rs.inputs.expected_fps, max_frame))
    ELSE Raise("ValueError")

----------------------------------------------------------------------------
(* jc_utils/scoring_utils.py *)

\* data[frame] for every frame of frames: an index outside -len..len-1 raises
extract_skeleton_data(data, frames) ==
    IF \E i \in 1..Len(frames) : frames[i] >= data.len \/ frames[i] < -data.len
    THEN Raise("IndexError")
    ELSE Ok([len |-> Len(frames), prep |-> data.prep])

----------------------------------------------------------------------------
(* plugins: the metric computations are external; a plugin is the table of
   what its methods yield for each phase id it knows *)

\* plugin.compute_metrics(phase_id, student_data, coach_data)
compute_metrics(plg, phase_id, student_data, coach_data) ==
    IF phase_id \in DOMAIN plg.metrics THEN Ok(plg.metrics[phase_id]) ELSE Raise("ValueError")

\* plugin.compute_metric_series(phase_id, student_data, coach_data)
compute_metric_series(plg, phase_id, student_data, coach_data) ==
    IF phase_id \in DOMAIN plg.series THEN plg.series[phase_id] ELSE << >>

----------------------------------------------------------------------------
(* RuleEngine.analyze *)

PassScorePct == 100

FailScorePct == 30

\* [self._evaluate_rule(r, metrics) for r in phase_rules]
EvaluateRules(phase_rules, metrics) ==
    Collect([i \in 1..Len(phase_rules) |-> _evaluate_rule(phase_rules[i], metrics)])

\* [r for r in rules if r.get("phase") == phase_id]
PhaseRules(rs, phase_id) ==
    Filter(Get(rs, "rules", <<>>), LAMBDA r : Get(r, "phase", "None") = phase_id)

\* the step score rounded to the nearest integer instead of truncated
StepScorePctRounded(rule_results) ==
    IF rule_results # <<>>
    THEN (2 * SumSeq([i \in 1..Len(rule_results) |->
                        IF rule_results[i].passed THEN PassScorePct ELSE FailScorePct])
          + Len(rule_results)) \div (2 * Len(rule_results))
    ELSE 100

\* int(sum(legacy_rule_scores) / len(legacy_rule_scores)), 100 for no rules
StepScorePct(rule_results) ==
    IF rule_results # <<>>
    THEN SumSeq([i \in 1..Len(rule_results) |->
                   IF rule_results[i].passed THEN PassScorePct ELSE FailScorePct])
         \div Len(rule_results)
    ELSE 100

\* {rr["rule_id"]: rr for rr in rule_results}
RulesDict(rule_results) ==
    DictFrom([i \in 1..Len(rule_results) |-> rule_results[i].rule_id], rule_results)

PhaseDict(rule_results, metrics, frame_range, profile) ==
    LET base == [Rules |-> RulesDict(rule_results),
                 Score |-> StepScorePct(rule_results),
                 StepClassification |->
                     classify_step([i \in 1..Len(rule_results) |->
                                      <<rule_results[i].rule_id, rule_results[i].passed>>]),
                 Metrics |-> metrics,
                 FrameRange |-> frame_range]
    IN  IF profile THEN base @@ [TimingsSec |-> "timings"] ELSE base

\* one iteration of the loop over phases: the phase's dict and its rule_results
AnalyzePhaseBody(rs, plg, ctx, lc, phase) ==
    Then(_phase_frame_range(rs, phase, ctx, Min(lc.student_p.len - 1, lc.coach_p.len - 1)),
         LAMBDA frame_range :
    Then(extract_skeleton_data(lc.coach_p, frame_range), LAMBDA coach_data :
    Then(extract_skeleton_data(lc.student_p, frame_range), LAMBDA student_data :
    Then(compute_metrics(plg, phase.id, student_data, coach_data), LAMBDA metrics :
    Then(EvaluateRules(PhaseRules(rs, phase.id), metrics), LAMBDA rule_results :
    Ok([rule_results |-> rule_results,
        phase_dict |-> PhaseDict(rule_results, metrics, frame_range,
                                 Get(ctx, "profile_timings", FALSE))]))))))

\* analyze up to the loop: preprocessing, and an empty result mapping
AnalyzeCall ==
    /\ pc = "ready"
    /\ locals' = _apply_preprocess(rule_set, student, coach)
    /\ phase_idx' = 1
    /\ all_results' = <<>>
    /\ pc' = "loop"
    /\ UNCHANGED <<inputs, plugin_registry, evaluated, call, ret>>

\* the end of an iteration that did not raise: all_results[phase_id] = phase_dict
StorePhase(phase_id, body) ==
    /\ body.exc = "none"
    /\ all_results' = DictPut(all_results, phase_id, body.val.phase_dict)
    /\ evaluated' = Append(evaluated, [phase_id |-> phase_id,
                                        rule_results |-> body.val.rule_results])

\* one iteration of `for phase in phases` that completes
AnalyzePhase ==
    /\ pc = "loop"
    /\ phase_idx <= Len(rule_set.phases)
    /\ StorePhase(rule_set.phases[phase_idx].id,
                  AnalyzePhaseBody(rule_set, plugin, context, locals, rule_set.phases[phase_idx]))
    /\ phase_idx' = phase_idx + 1
    /\ UNCHANGED <<inputs, plugin_registry, pc, locals, call, ret>>

\* an iteration's exception swallowed: the phases stored so far are returned
PropagatePartial(body) ==
    /\ body.exc # "none"
    /\ ret' = Ok(all_results)

\* the exception of an iteration leaves analyze
Propagate(body) ==
    /\ body.exc # "none"
    /\ ret' = Raise(body.exc)

\* an iteration that raises: analyze ends there, its locals are gone
AnalyzeRaise ==
    /\ pc = "loop"
    /\ phase_idx <= Len(rule_set.phases)
    /\ Propagate(AnalyzePhaseBody(rule_set, plugin, context, locals, rule_set.phases[phase_idx]))
    /\ pc' = "raised"
    /\ UNCHANGED <<inputs, plugin_registry, locals, phase_idx, all_results, evaluated, call>>

\* after the loop: the optional _meta entry, and the return
AnalyzeReturn ==
    /\ pc = "loop"
    /\ phase_idx > Len(rule_set.phases)
    /\ ret' = Ok(IF Get(context, "profile_timings", FALSE)
                 THEN DictPut(all_results, "_meta", [TimingsSec |-> "timings"])
                 ELSE all_results)
    /\ pc' = "done"
    /\ UNCHANGED <<inputs, plugin_registry, locals, phase_idx, all_results, evaluated, call>>

----------------------------------------------------------------------------
(* the inputs the model draws from *)

MaxRules == 3

MaxConds == 2

PhaseIds == {"p1", "p2"}

RuleIds == {"r1", "r2"}

NoCall == [fn |-> "none"]

NoRet == Ok("none")

Skeleton(n) == [len |-> n, prep |-> <<>>]

\* the phases of a rule definition: explicit frame ranges, ids pairwise distinct
Phase1 == [id |-> "p1", frame_range |-> <<0, 1>>]

Phase2 == [id |-> "p2", frame_range |-> <<2, 3>>]

PhaseLists == {<<Phase1>>, <<Phase1, Phase2>>, <<Phase2, Phase1>>}

\* a plugin that knows every phase and also yields series
SeriesPlugin ==
    [metrics |-> [p \in PhaseIds |-> [m1 |-> 2, m2 |-> 0]],
     series |-> [p \in PhaseIds |-> [s1 |-> <<1, 2, 3>>]]]

\* a plugin with scalar metrics only, for the phase p1 only
ScalarPlugin ==
    [metrics |-> [p \in {"p1"} |-> [m1 |-> 2, m2 |-> 1]],
     series |-> << >>]

\* conditions over the metrics m1, m2 and the series s1
CondPass == [id |-> "c1", type |-> "threshold", metric |-> "m1", op |-> "gte", value |-> Num(1)]

CondFail == [id |-> "c2", type |-> "threshold", metric |-> "m1", op |-> "lt", value |-> Num(1),
             tolerance |-> 0]

CondBool == [id |-> "c3", type |-> "boolean", metric |-> "m2", op |-> "is_true"]

CondRange == [id |-> "c4", type |-> "range", metric |-> "m1", op |-> "between",
              value |-> List(<<1, 3>>)]

CondTrend == [id |-> "c5", type |-> "trend", metric |-> "s1", op |-> "increasing"]

CondEvent == [id |-> "c6", type |-> "event_exists", event |-> "e1"]

CondComposite == [id |-> "c7", type |-> "composite", logic |-> "all", conditions |-> <<"c1">>]

CondAngle == [id |-> "c8", type |-> "angle", joints |-> <<2, 3, 4>>, op |-> "lte",
              value |-> Num(10)]

CondDistance == [id |-> "c9", type |-> "distance", pair |-> <<4, 7>>, op |-> "lte",
                 value |-> Num(10)]

\* conditions and a scoring policy with names the evaluator does not know
CondThresholdBadOp == [id |-> "c10", type |-> "threshold", metric |-> "m1", op |-> "approx",
                       value |-> Num(1)]

CondRangeBadOp == [id |-> "c11", type |-> "range", metric |-> "m1", op |-> "approx",
                   value |-> List(<<1, 3>>)]

CondBoolBadOp == [id |-> "c12", type |-> "boolean", metric |-> "m2", op |-> "is_set"]

CondBadType == [id |-> "c13", type |-> "regex", metric |-> "m1"]

MisnamedConds == {CondThresholdBadOp, CondRangeBadOp, CondBoolBadOp, CondBadType}

ScalarConds == {CondPass, CondFail, CondBool, CondRange}

CondCatalogue ==
    ScalarConds \cup {CondTrend, CondEvent, CondComposite, CondAngle, CondDistance}
    \cup MisnamedConds

Feedbacks ==
    <<[condition_ids |-> <<"c1", "c2">>, message |-> "fix c1 or c2"],
      [condition_ids |-> <<"c3">>, message |-> "fix c3"]>>

ScoreCfgs ==
    {[mode |-> "all-or-nothing"], [mode |-> "average", max_score |-> 100],
     [mode |-> "best-of", pass_score |-> 50]}

\* the rules a rule list is drawn from: every id on every phase, passing,
\* failing or without conditions
RuleCatalogue ==
    {[id |-> i, phase |-> p, conditions |-> c, feedback |-> Feedbacks] :
        i \in RuleIds, p \in PhaseIds, c \in {<<>>, <<CondPass>>, <<CondFail>>}}

Contexts ==
    {<< >>,
     [profile_timings |-> TRUE, events |-> [e1 |-> Num(1)]]}

InitEngine ==
    /\ student = Skeleton(4)
    /\ coach = Skeleton(4)
    /\ pc = "ready"
    /\ locals = [student_p |-> Skeleton(0), coach_p |-> Skeleton(0)]
    /\ phase_idx = 0
    /\ all_results = <<>>
    /\ evaluated = <<>>
    /\ call = NoCall
    /\ ret = NoRet
    /\ plugin_registry = <<>>

\* rule lists over the catalogue, on one or two phases
InitRuleLists ==
    /\ InitEngine
    /\ plugin = SeriesPlugin
    /\ context = << >>
    /\ \E ps \in PhaseLists, rs \in SeqUpTo(RuleCatalogue, MaxRules) :
          rule_set = [inputs |-> [preprocess |-> <<"align_orientation">>, expected_fps |-> 30],
                      phases |-> ps, rules |-> rs]

\* one rule on one phase, its conditions over every condition type
InitConditions ==
    /\ InitEngine
    /\ plugin \in {SeriesPlugin, ScalarPlugin}
    /\ context \in Contexts
    /\ \E cs \in SeqUpTo(CondCatalogue, MaxConds), sc \in ScoreCfgs :
          rule_set = [inputs |-> [preprocess |-> <<"unknown_step", "normalize_lengths">>,
                                  expected_fps |-> 30],
                      phases |-> <<Phase1>>,
                      rules |-> <<[id |-> "r1", phase |-> "p1", label |-> "rule one",
                                   conditions |-> cs, score |-> sc, feedback |-> Feedbacks]>>]

\* phases resolved from an explicit range within or past the sequences, or
\* from an event window
PhaseLong == [id |-> "p2", frame_range |-> <<2, 5>>]

PhaseEvent == [id |-> "p2", event_window |-> [event |-> "e1", window_ms |-> <<-100, 200>>]]

FramePhaseLists ==
    {<<Phase1>>} \cup UNION {{<<ph>>, <<Phase1, ph>>, <<ph, Phase1>>} : ph \in {Phase2, PhaseLong, PhaseEvent}}

SkeletonLengths == {<<4, 4>>, <<3, 4>>, <<6, 2>>, <<8, 8>>}

\* preprocessing pipelines: none, the known steps in both orders, an unknown step
PreprocessLists ==
    {<<>>, <<"align_orientation", "unknown_step", "normalize_lengths">>,
     <<"normalize_lengths", "align_orientation">>}

\* one passing rule per phase id, on sequences of several lengths
InitFrames ==
    /\ \E ln \in SkeletonLengths : student = Skeleton(ln[1]) /\ coach = Skeleton(ln[2])
    /\ pc = "ready"
    /\ locals = [student_p |-> Skeleton(0), coach_p |-> Skeleton(0)]
    /\ phase_idx = 0
    /\ all_results = <<>>
    /\ evaluated = <<>>
    /\ call = NoCall
    /\ ret = NoRet
    /\ plugin_registry = <<>>
    /\ plugin \in {SeriesPlugin, ScalarPlugin}
    /\ context \in {<< >>, [events |-> [e1 |-> Num(2)]]}
    /\ \E ps \in FramePhaseLists, pre \in PreprocessLists :
          rule_set = [inputs |-> [preprocess |-> pre, expected_fps |-> 30],
                      phases |-> ps,
                      rules |-> <<[id |-> "r1", phase |-> "p1", conditions |-> <<CondPass>>],
                                 [id |-> "r2", phase |-> "p2", conditions |-> <<CondFail>>]>>]

Init == InitRuleLists \/ InitConditions \/ InitFrames

Next == AnalyzeCall \/ AnalyzePhase \/ AnalyzeRaise \/ AnalyzeReturn

Spec == Init /\ [][Next]_vars

----------------------------------------------------------------------------
(* direct calls of the evaluator's functions, their arguments drawn from
   bounded sets *)

MaxVal == 2

MaxTol == 2

MaxFeedback == 2

MaxWeight == 2

CondIds == {"c1", "c2", "c3"}

\* dicts over a subset of the keys K with values in V
PartialFns(K, V) == UNION {[D -> V] : D \in SUBSET K}

\* condition results c1, c2, ... of a rule, each passed or failed
CondResultLists(n) ==
    UNION {{[i \in 1..k |-> ConditionResult(ids[i], flags[i], 0)] :
               ids \in [1..k -> CondIds], flags \in [1..k -> BOOLEAN]} : k \in 0..n}

\* the condition results of a rule whose condition ids are distinct
DistinctCondResultLists(n) ==
    {crs \in CondResultLists(n) : \A i, j \in 1..Len(crs) : crs[i].id = crs[j].id => i = j}

ClassifyCalls ==
    {[fn |-> "classify_step", rule_results |-> rr] :
        rr \in SeqUpTo(RuleIds \X BOOLEAN, MaxRules)}

ScoreModes == {"all-or-nothing", "average", "weighted", "best-of"}

ScoreCfgInputs ==
    {m @@ x @@ ps : m \in {<< >>} \cup {[mode |-> md] : md \in ScoreModes},
                    x \in {<< >>, [max_score |-> 100]},
                    ps \in {<< >>, [pass_score |-> 50]}}
    \cup {[mode |-> "weighted", max_score |-> 100, weights |-> w] :
             w \in PartialFns(CondIds, 0..MaxWeight)}

AggregateCalls ==
    {[fn |-> "aggregate_score", score_cfg |-> sc, cond_results |-> crs] :
        sc \in ScoreCfgInputs, crs \in DistinctCondResultLists(MaxConds + 1)}

Values == (-MaxVal)..MaxVal

Tolerances == {<< >>} \cup {[tolerance |-> t] : t \in 0..MaxTol}

NumericOps == {"gte", "gt", "lte", "lt", "eq", "neq", "between", "approx"}

NumericConds ==
    {[type |-> "threshold", op |-> o, value |-> v] @@ t @@ a :
        o \in NumericOps,
        v \in {Num(n) : n \in Values} \cup {List(<<lo, hi>>) : lo, hi \in Values},
        t \in Tolerances,
        a \in {<< >>, [abs_val |-> TRUE]}}
    \cup
    {[type |-> "range", op |-> "between", value |-> List(<<lo, hi>>)] @@ t @@ a :
        lo, hi \in Values, t \in Tolerances, a \in {<< >>, [abs_val |-> TRUE]}}

NumericCalls ==
    {[fn |-> "_evaluate_numeric_condition", lhs |-> x, cond |-> c] :
        x \in Values, c \in NumericConds}

FeedbackEntries ==
    {[message |-> "m"] @@ c :
        c \in {<< >>} \cup {[condition_ids |-> ids] :
                                ids \in {<<>>, <<"c1">>, <<"c2">>, <<"c1", "c2">>, <<"c3", "c1">>}}}

\* feedback lists whose entries are told apart by their messages
FeedbackLists ==
    {[i \in 1..Len(fs) |-> [fs[i] EXCEPT !.message = IF i = 1 THEN "first" ELSE "later"]] :
        fs \in SeqUpTo(FeedbackEntries, MaxFeedback)}

FeedbackCalls ==
    {[fn |-> "select_feedback", rule |-> r, cond_results |-> crs] :
        r \in {[id |-> "r1"]} \cup {[id |-> "r1", feedback |-> fs] : fs \in FeedbackLists},
        crs \in DistinctCondResultLists(MaxConds)}

InitCalls ==
    /\ rule_set = [phases |-> <<>>, rules |-> <<>>]
    /\ plugin = ScalarPlugin
    /\ student = Skeleton(0)
    /\ coach = Skeleton(0)
    /\ context = << >>
    /\ locals = [student_p |-> Skeleton(0), coach_p |-> Skeleton(0)]
    /\ phase_idx = 0
    /\ all_results = <<>>
    /\ evaluated = <<>>
    /\ pc = "call"
    /\ call \in ClassifyCalls \cup AggregateCalls \cup NumericCalls \cup FeedbackCalls
    /\ ret = NoRet
    /\ plugin_registry = <<>>

Return(r) ==
    /\ pc = "call"
    /\ ret' = r
    /\ pc' = "returned"
    /\ UNCHANGED <<inputs, plugin_registry, locals, phase_idx, all_results, evaluated, call>>

CallClassifyStep ==
    /\ call.fn = "classify_step"
    /\ Return(Ok(classify_step(call.rule_results)))

CallAggregateScore ==
    /\ call.fn = "aggregate_score"
    /\ Return(Ok(aggregate_score(call.score_cfg, call.cond_results)))

CallEvaluateNumericCondition ==
    /\ call.fn = "_evaluate_numeric_condition"
    /\ Return(_evaluate_numeric_condition(call.lhs, call.cond))

CallSelectFeedback ==
    /\ call.fn = "select_feedback"
    /\ Return(Ok(select_feedback(call.rule, call.cond_results)))

NextCalls ==
    CallClassifyStep \/ CallAggregateScore \/ CallEvaluateNumericCondition \/ CallSelectFeedback

SpecCalls == InitCalls /\ [][NextCalls]_vars

----------------------------------------------------------------------------
(* direct calls of the engine's phase resolution and of the condition
   evaluator, on an engine whose rule_set holds the inputs section and with
   the context of the call *)

Dict(d) == [tag |-> "dict", d |-> d]

\* the values of context.events["e1"]: bare frame numbers and payloads
EventValues ==
    {Num(90), Num(2), Num(-4), Dict([frame |-> 2]), Dict([ts_ms |-> 50]),
     Dict([ts_ms |-> 3000]), Dict([label |-> 1])}

EventContexts == {<< >>, [events |-> << >>]} \cup {[events |-> [e1 |-> v]] : v \in EventValues}

WindowsMs == {<<-100, 200>>, <<200, -100>>, <<0, 50>>, <<-100>>, <<>>, <<-100, 0, 200>>}

EventWindows ==
    {[event |-> "e1", window_ms |-> w] : w \in WindowsMs}
    \cup {[window_ms |-> <<-100, 200>>], [event |-> "e1"]}

ResolvePhases ==
    {[id |-> "p1"], [id |-> "p1", frame_range |-> <<1, 5>>],
     [id |-> "p1", frame_range |-> <<0, 1>>, event_window |-> [event |-> "e1"]]}
    \cup {[id |-> "p1", event_window |-> ew] : ew \in EventWindows}

InputsSections == {<< >>, [expected_fps |-> 30], [preprocess |-> <<>>]}

MaxFrames == {1, 3, 100}

FrameRangeCalls ==
    {[fn |-> "_phase_frame_range", phase |-> ph, max_frame |-> mf] :
        ph \in ResolvePhases, mf \in MaxFrames}

\* scalar conditions, with and without a metric the metrics mapping has
MetricsInputs == {<< >>, [m1 |-> 2], [m1 |-> 2, m2 |-> 0]}

ScalarCondInputs ==
    ScalarConds
    \cup {[id |-> "c1", type |-> t, metric |-> "m9", op |-> "gte", value |-> Num(1)] :
             t \in {"threshold", "range", "boolean"}}
    \cup {[id |-> "c1", type |-> t, op |-> "is_true", value |-> Num(1)] :
             t \in {"threshold", "boolean"}}

EventCondInputs ==
    {[id |-> "c6", type |-> "event_exists"]}
    \cup {[id |-> "c6", type |-> "event_exists", event |-> e] : e \in {"e1", " e1", "", " "}}

SeriesInputs == {<<1, 2, 3>>, <<3, 1, 3>>, <<2, 2>>, <<5>>, <<4, 3, 2, 2>>}

TrendWindows ==
    {<< >>, [window_ms |-> <<0, 50>>], [window_ms |-> <<100, 0>>], [window_ms |-> <<0>>],
     [window_frames |-> 3, window_ms |-> <<0, 50>>]}
    \cup {[window_frames |-> n] : n \in 0..3}

TrendCondInputs ==
    {[id |-> "c5", type |-> "trend", metric |-> "s1", op |-> o] @@ w :
        o \in {"increasing", "decreasing", "flat"}, w \in TrendWindows}
    \cup {[id |-> "c5", type |-> "trend", op |-> "increasing"],
          [id |-> "c5", type |-> "trend", metric |-> "s9", op |-> "increasing"]}

ConditionCalls ==
    {[fn |-> "evaluate_condition", cond |-> c, metrics |-> m, metric_series |-> << >>] :
        c \in ScalarCondInputs \cup EventCondInputs, m \in MetricsInputs}
    \cup {[fn |-> "evaluate_condition", cond |-> c, metrics |-> << >>, metric_series |-> [s1 |-> sr]] :
             c \in TrendCondInputs, sr \in SeriesInputs}

CompositeConds ==
    {[id |-> "c7", type |-> "composite"], [id |-> "c7", type |-> "composite", logic |-> "all"]}
    \cup {[id |-> "c7", type |-> "composite", logic |-> l, conditions |-> refs] :
             l \in {"all", "any", "none", "xor"},
             refs \in {<<>>, <<"c1">>, <<"c1", "c2">>, <<"c3", "c1">>}}

ResultsById ==
    {[i \in D |-> ConditionResult(i, flags[i], 0)] :
        flags \in [CondIds -> BOOLEAN], D \in SUBSET CondIds}

CompositeCalls ==
    {[fn |-> "evaluate_composite_condition", cond |-> c, cond_results_by_id |-> by] :
        c \in CompositeConds, by \in ResultsById}

InitEvaluate ==
    /\ \E i \in InputsSections : rule_set = [inputs |-> i, phases |-> <<>>, rules |-> <<>>]
    /\ plugin = ScalarPlugin
    /\ student = Skeleton(0)
    /\ coach = Skeleton(0)
    /\ context \in EventContexts \cup {[expected_fps |-> 30]}
    /\ locals = [student_p |-> Skeleton(0), coach_p |-> Skeleton(0)]
    /\ phase_idx = 0
    /\ all_results = <<>>
    /\ evaluated = <<>>
    /\ pc = "call"
    /\ call \in FrameRangeCalls \cup ConditionCalls \cup CompositeCalls
    /\ ret = NoRet
    /\ plugin_registry = <<>>

CallPhaseFrameRange ==
    /\ call.fn = "_phase_frame_range"
    /\ Return(_phase_frame_range(rule_set, call.phase, context, call.max_frame))

CallEvaluateCondition ==
    /\ call.fn = "evaluate_condition"
    /\ Return(evaluate_condition(call.cond, call.metrics, call.metric_series, context,
                                 NoData, NoData))

CallEvaluateCompositeCondition ==
    /\ call.fn = "evaluate_composite_condition"
    /\ Return(evaluate_composite_condition(call.cond, call.cond_results_by_id))

NextEvaluate == CallPhaseFrameRange \/ CallEvaluateCondition \/ CallEvaluateCompositeCondition

SpecEvaluate == InitEvaluate /\ [][NextEvaluate]_vars

----------------------------------------------------------------------------
(* plugins/registry.py: PluginRegistry.  A method yields its outcome and the
   registry it leaves: [ret, registry] *)

RegisteredPlugin(name, factory) == [name |-> name, factory |-> factory]

HasKey(reg, k) == \E i \in 1..Len(reg) : reg[i].k = k

Lookup(reg, k) == reg[CHOOSE i \in 1..Len(reg) : reg[i].k = k].v

\* ", ".join(sorted(keys)) or "<none>": the known names, in no order of insertion
KnownNames(reg) == IF reg = <<>> THEN "<none>" ELSE Range(Keys(reg))

\* an exception whose message lists names
RaiseNaming(e, names) == [exc |-> e, val |-> "no value", names |-> names]

\* register replacing the factory of a name that is already registered
RegisterOverwrite(reg, name, factory) ==
    IF name = "" \/ Strip(name) = ""
    THEN [ret |-> Raise("ValueError"), registry |-> reg]
    ELSE [ret |-> Ok("None"),
          registry |-> DictPut(reg, Strip(name), RegisteredPlugin(Strip(name), factory))]

register(reg, name, factory) ==
    IF name = "" THEN [ret |-> Raise("ValueError"), registry |-> reg]
    ELSE IF Strip(name) = "" THEN [ret |-> Raise("ValueError"), registry |-> reg]
    ELSE IF HasKey(reg, Strip(name)) THEN [ret |-> Raise("ValueError"), registry |-> reg]
    ELSE [ret |-> Ok("None"),
          registry |-> DictPut(reg, Strip(name), RegisteredPlugin(Strip(name), factory))]

\* the factory's call yields an instance of what it makes
create(reg, name) ==
    IF ~HasKey(reg, name)
    THEN [ret |-> RaiseNaming("KeyError", KnownNames(reg)), registry |-> reg]
    ELSE [ret |-> Ok([instance_of |-> Lookup(reg, name).factory]), registry |-> reg]

PluginNames == {"", " ", "a", " a ", "b"}

Factories == {"f1", "f2"}

InitRegistry ==
    /\ rule_set = [phases |-> <<>>, rules |-> <<>>]
    /\ plugin = ScalarPlugin
    /\ student = Skeleton(0)
    /\ coach = Skeleton(0)
    /\ context = << >>
    /\ locals = [student_p |-> Skeleton(0), coach_p |-> Skeleton(0)]
    /\ phase_idx = 0
    /\ all_results = <<>>
    /\ evaluated = <<>>
    /\ pc = "registry"
    /\ call = NoCall
    /\ ret = NoRet
    /\ plugin_registry = <<>>

\* the outcome of a method call on the registry
RegistryCall(c, outcome) ==
    /\ call' = c
    /\ ret' = outcome.ret
    /\ plugin_registry' = outcome.registry
    /\ UNCHANGED <<inputs, pc, locals, phase_idx, all_results, evaluated>>

Register ==
    /\ pc = "registry"
    /\ \E name \in PluginNames, factory \in Factories :
          RegistryCall([fn |-> "register", name |-> name, factory |-> factory],
                       register(plugin_registry, name, factory))

Create ==
    /\ pc = "registry"
    /\ \E name \in PluginNames :
          RegistryCall([fn |-> "create", name |-> name], create(plugin_registry, name))

NextRegistry == Register \/ Create

SpecRegistry == InitRegistry /\ [][NextRegistry]_vars

----------------------------------------------------------------------------
(* rule definitions as the tools around the engine read them: plugin
   selection (plugins/registry.py) and migration
   (scripts/migrate_ruleset_v1_to_v2.py).  A schema_version string is known by
   what split(".") makes of it, [lpad, parts]: its parts, and whether
   whitespace precedes the first *)

DigitStrings == {"0", "1", "2", "3"}

\* int(part) of a part made of digits
IntOf(part) == (("0" :> 0) @@ ("1" :> 1) @@ ("2" :> 2) @@ ("3" :> 3))[part]

\* str(None or "").split("."): one empty part
NoVersion == [lpad |-> FALSE, parts |-> <<"">>]

\* version.strip()
StripVersion(v) == [v EXCEPT !.lpad = FALSE]

\* len(parts) == 3 and all(part.isdigit() for part in parts)
IsXYZ(v) ==
    /\ Len(v.parts) = 3
    /\ ~v.lpad
    /\ \A i \in 1..Len(v.parts) : v.parts[i] \in DigitStrings

\* plugins/registry.py _schema_major: 1 for anything that is not x.y.z
_schema_major(rs) ==
    LET version == StripVersion(Get(rs, "schema_version", NoVersion)) IN
    IF IsXYZ(version) THEN IntOf(version.parts[1]) ELSE 1

\* resolve_plugin_name letting a definition's sport decide whenever it has one
ResolvePluginNameSportFirst(rs, plugin_name) ==
    IF plugin_name \notin {"None", "", "auto"} THEN Ok(plugin_name)
    ELSE IF Get(rs, "sport", "") # "" THEN Ok(rs.sport)
    ELSE IF _schema_major(rs) >= 2 THEN Ok("generic_core")
    ELSE Raise("ValueError")

resolve_plugin_name(rs, plugin_name) ==
    IF plugin_name \notin {"None", "", "auto"} THEN Ok(plugin_name)
    ELSE IF _schema_major(rs) >= 2 THEN
        LET profile_id == Strip(Get(Get(rs, "metric_profile", << >>), "id", "")) IN
        Ok(IF profile_id # "" THEN profile_id ELSE "generic_core")
    ELSE IF Get(rs, "sport", "") = "" THEN Raise("ValueError")
    ELSE Ok(rs.sport)

Versions ==
    {[lpad |-> l, parts |-> ps] :
        l \in BOOLEAN,
        ps \in {<<"1", "0", "0">>, <<"2", "0", "0">>, <<"3", "1", "0">>, <<"0", "1", "0">>,
                <<"2", "0">>, <<"2", "x", "0">>, <<"x", "0", "0">>, <<"">>}}

ProfileIds == {"", " ", "a", " a ", "generic_core"}

Sports == {"", "baseball", "a"}

\* the fields of a rule definition that plugin selection reads
SelectionFields ==
    {v @@ mp @@ sp :
        v \in {<< >>} \cup {[schema_version |-> ver] : ver \in Versions},
        mp \in {<< >>, [metric_profile |-> << >>]}
                \cup {[metric_profile |-> [id |-> i]] : i \in ProfileIds},
        sp \in {<< >>} \cup {[sport |-> sn] : sn \in Sports}}

RequestedNames == {"None", "", "auto", "baseball", " a "}

ResolveCalls ==
    {[fn |-> "resolve_plugin_name", rule_set |-> rs, plugin_name |-> pn] :
        rs \in SelectionFields, pn \in RequestedNames}

(* scripts/migrate_ruleset_v1_to_v2.py.  A string the code builds by
   concatenation is the sequence of its pieces *)

\* schema_major: raises for anything that is not x.y.z
schema_major(version) ==
    IF ~IsXYZ(version) THEN Raise("ValueError") ELSE Ok(IntOf(version.parts[1]))

V2 == [lpad |-> FALSE, parts |-> <<"2", "0", "0">>]

\* migrated["metric_profile"], with preset_id under profile_type preset
MetricProfile(rs, profile_id, profile_type, preset_id) ==
    [id |-> profile_id, type |-> profile_type, metric_space |-> "core_v1"]
    @@ (IF profile_type # "preset" THEN << >>
        ELSE [preset_id |-> IF preset_id # <<>> THEN preset_id
                            ELSE <<Get(rs, "sport", "starter"), "_starter">>])

\* the optional sport fields, kept when truthy
KeptIfTruthy(rs, key) ==
    IF Get(rs, key, "") # "" THEN (key :> rs[key]) ELSE << >>

Migrated(rs, profile_id, profile_type, preset_id) ==
    [schema_version |-> V2,
     rule_set_id |-> rs.rule_set_id,
     metric_profile |-> MetricProfile(rs, profile_id, profile_type, preset_id),
     metadata |-> Get(rs, "metadata", << >>),
     inputs |-> Get(rs, "inputs", << >>),
     globals |-> Get(rs, "globals", << >>),
     phases |-> Get(rs, "phases", <<>>),
     rules |-> Get(rs, "rules", <<>>)]

Report(rs, migrated) ==
    [source_schema_version |-> rs.schema_version,
     target_schema_version |-> migrated.schema_version,
     rule_set_id |-> migrated.rule_set_id,
     metric_profile |-> migrated.metric_profile,
     phase_count |-> Len(migrated.phases),
     rule_count |-> Len(migrated.rules)]

\* migrate_v1_to_v2 leaving sport and sport_version behind
MigrateDroppingSport(rs, kw) ==
    LET major == schema_major(Get(rs, "schema_version", NoVersion)) IN
    IF major.exc # "none" THEN [ret |-> major, rule_set_v1 |-> rs]
    ELSE IF major.val # 1 THEN [ret |-> Raise("ValueError"), rule_set_v1 |-> rs]
    ELSE IF "rule_set_id" \notin DOMAIN rs THEN [ret |-> Raise("KeyError"), rule_set_v1 |-> rs]
    ELSE [ret |-> Ok(<<Migrated(rs, Get(kw, "profile_id", "generic_core"),
                                Get(kw, "profile_type", "generic"),
                                Get(kw, "preset_id", <<>>)),
                       Report(rs, Migrated(rs, Get(kw, "profile_id", "generic_core"),
                                           Get(kw, "profile_type", "generic"),
                                           Get(kw, "preset_id", <<>>)))>>),
          rule_set_v1 |-> rs]

\* the outcome and the input definition as the call leaves it: [ret, rule_set_v1]
migrate_v1_to_v2(rs, kw) ==
    LET major == schema_major(Get(rs, "schema_version", NoVersion)) IN
    IF major.exc # "none" THEN [ret |-> major, rule_set_v1 |-> rs]
    ELSE IF major.val # 1 THEN [ret |-> Raise("ValueError"), rule_set_v1 |-> rs]
    ELSE IF "rule_set_id" \notin DOMAIN rs THEN [ret |-> Raise("KeyError"), rule_set_v1 |-> rs]
    ELSE [ret |-> Ok(<<KeptIfTruthy(rs, "sport") @@ KeptIfTruthy(rs, "sport_version")
                         @@ Migrated(rs, Get(kw, "profile_id", "generic_core"),
                                     Get(kw, "profile_type", "generic"),
                                     Get(kw, "preset_id", <<>>)),
                       Report(rs, Migrated(rs, Get(kw, "profile_id", "generic_core"),
                                           Get(kw, "profile_type", "generic"),
                                           Get(kw, "preset_id", <<>>)))>>),
          rule_set_v1 |-> rs]

\* phases, rules and metadata of a definition, all declared or all left out
Contents ==
    {<< >>,
     [metadata |-> [title |-> "t"],
      phases |-> <<Phase1, Phase2>>,
      rules |-> <<[id |-> "r1", phase |-> "p1", conditions |-> <<CondPass>>]>>]}

V1Definitions ==
    {v @@ id @@ sp @@ sv @@ c :
        v \in {<< >>} \cup {[schema_version |-> ver] : ver \in Versions},
        id \in {<< >>, [rule_set_id |-> "rs1"]},
        sp \in {<< >>} \cup {[sport |-> sn] : sn \in Sports},
        sv \in {<< >>, [sport_version |-> ""], [sport_version |-> "1.0"]},
        c \in Contents}

\* the keyword arguments a caller passes
MigrateKeywords ==
    {<< >>, [profile_id |-> "a"], [profile_type |-> "preset"],
     [profile_type |-> "preset", preset_id |-> <<"p">>]}

\* given: the definition as it was when the call was made
MigrateCalls ==
    {[fn |-> "migrate_v1_to_v2", rule_set |-> rs, given |-> rs, kw |-> kw] :
        rs \in V1Definitions, kw \in MigrateKeywords}

(* scripts/validate_rules.py.  A signal's ref string is known by what
   startswith("phase:") and split("phase:", 1) make of it: [prefix, rest] *)

\* ensure_unique_ids: the set of ids seen, or ValueError at the first repeat
ensure_unique_ids(items, key_name) ==
    IF \E i, j \in 1..Len(items) :
            i < j /\ Get(items[i], key_name, "None") = Get(items[j], key_name, "None")
    THEN Raise("ValueError")
    ELSE Ok({Get(items[i], key_name, "None") : i \in 1..Len(items)})

NoRef == [prefix |-> "", rest |-> ""]

\* the feedback entries of a rule name only conditions of the rule
FeedbackRefsExist(rule, cond_ids) ==
    \A f \in 1..Len(Get(rule, "feedback", <<>>)) :
        Range(Get(rule.feedback[f], "condition_ids", <<>>)) \subseteq cond_ids

\* a frame_range_ref signal names a declared phase as phase:<id>
SignalRefExists(rule, phase_ids) ==
    Get(Get(rule, "signal", << >>), "type", "None") = "frame_range_ref" =>
        /\ Get(rule.signal, "ref", NoRef).prefix = "phase:"
        /\ Get(rule.signal, "ref", NoRef).rest \in phase_ids

\* the body of the loop over rules, for one rule
ValidateRule(rule, phase_ids) ==
    IF Get(rule, "phase", "None") \notin phase_ids THEN Raise("ValueError")
    ELSE Then(ensure_unique_ids(Get(rule, "conditions", <<>>), "id"), LAMBDA cond_ids :
         IF ~FeedbackRefsExist(rule, cond_ids) THEN Raise("ValueError")
         ELSE IF ~SignalRefExists(rule, phase_ids) THEN Raise("ValueError")
         ELSE Ok(TRUE))

\* validate_references without the check of the signal's ref
ValidateReferencesNoSignal(rs) ==
    Then(ensure_unique_ids(Get(rs, "phases", <<>>), "id"), LAMBDA phase_ids :
    Then(ensure_unique_ids(Get(rs, "rules", <<>>), "id"), LAMBDA rule_ids :
         IF \E i \in 1..Len(Get(rs, "rules", <<>>)) :
                ValidateRule([k \in DOMAIN rs.rules[i] \ {"signal"} |-> rs.rules[i][k]],
                             phase_ids).exc # "none"
         THEN Raise("ValueError")
         ELSE Ok(TRUE)))

validate_references(rs) ==
    Then(ensure_unique_ids(Get(rs, "phases", <<>>), "id"), LAMBDA phase_ids :
    Then(ensure_unique_ids(Get(rs, "rules", <<>>), "id"), LAMBDA rule_ids :
         IF \E i \in 1..Len(Get(rs, "rules", <<>>)) :
                ValidateRule(rs.rules[i], phase_ids).exc # "none"
         THEN Raise("ValueError")
         ELSE Ok(TRUE)))

ValidatedPhaseLists ==
    {<<>>, <<Phase1>>, <<Phase1, Phase2>>, <<Phase1, Phase1>>, <<Phase2, Phase1, Phase2>>}

ValidatedConditionLists ==
    {<<[id |-> "c1"]>>, <<[id |-> "c1"], [id |-> "c2"]>>, <<[id |-> "c1"], [id |-> "c1"]>>}

ValidatedFeedbacks ==
    {<< >>, [feedback |-> <<[condition_ids |-> <<"c1">>]>>],
     [feedback |-> <<[condition_ids |-> <<"c1">>], [condition_ids |-> <<"c2">>]>>],
     [feedback |-> <<[condition_ids |-> <<"c1", "c9">>]>>]}

Signals ==
    {<< >>, [signal |-> [type |-> "direct"]], [signal |-> [type |-> "frame_range_ref"]]}
    \cup {[signal |-> [type |-> "frame_range_ref", ref |-> [prefix |-> pre, rest |-> r]]] :
            pre \in {"", "phase:"}, r \in {"p1", "p2", "p9", ""}}

ValidatedRules ==
    {[id |-> "r1", phase |-> ph, conditions |-> cs] @@ fb @@ sg :
        ph \in {"p1", "p2", "p9"}, cs \in ValidatedConditionLists,
        fb \in ValidatedFeedbacks, sg \in Signals}

\* a rule that passes every check when p1 is declared
GoodRule(id) == [id |-> id, phase |-> "p1", conditions |-> <<[id |-> "c1"]>>]

ValidatedRuleLists ==
    {<<>>} \cup {<<r>> : r \in ValidatedRules}
           \cup {<<r, GoodRule(id)>> : r \in ValidatedRules, id \in {"r1", "r2"}}
           \cup {<<GoodRule("r2"), r>> : r \in ValidatedRules}

ValidateCalls ==
    {[fn |-> "validate_references", rule_set |-> [phases |-> ps, rules |-> rs]] :
        ps \in ValidatedPhaseLists, rs \in ValidatedRuleLists}
    \cup {[fn |-> "validate_references", rule_set |-> << >>]}

(* legacy_adapter.py *)

\* f"Step{index}" for the indices of the modelled phase lists
StepNames == <<"Step1", "Step2", "Step3">>

_legacy_step_name(phase, index) ==
    IF Get(phase, "legacy_step_name", "") # "" THEN phase.legacy_step_name
    ELSE StepNames[index]

\* the phase is skipped: it has no id or no frame_range
SkippedPhase(phase) ==
    \/ Get(phase, "id", "") = ""
    \/ Get(phase, "frame_range", <<>>) = <<>>

RECURSIVE BuildStepRanges(_, _)
\* the loop of build_step_ranges over the first n phases:
\* [step_ranges, phase_id_to_step]
BuildStepRanges(phases, n) ==
    IF n = 0 THEN [step_ranges |-> <<>>, phase_id_to_step |-> <<>>]
    ELSE IF SkippedPhase(phases[n]) THEN BuildStepRanges(phases, n - 1)
    ELSE [step_ranges |->
              DictPut(BuildStepRanges(phases, n - 1).step_ranges,
                      _legacy_step_name(phases[n], n),
                      RangeList(phases[n].frame_range[1], phases[n].frame_range[2])),
          phase_id_to_step |->
              DictPut(BuildStepRanges(phases, n - 1).phase_id_to_step,
                      phases[n].id, _legacy_step_name(phases[n], n))]

build_step_ranges(rs) ==
    <<BuildStepRanges(Get(rs, "phases", <<>>), Len(Get(rs, "phases", <<>>))).step_ranges,
      BuildStepRanges(Get(rs, "phases", <<>>), Len(Get(rs, "phases", <<>>))).phase_id_to_step>>

\* phases as the adapter reads them: with or without frame_range, with or
\* without a declared step name, with or without the texts of the report
LegacyPhases ==
    {Phase1, Phase2,
     [id |-> "p1", frame_range |-> <<0, 1>>, label |-> "Load", description |-> "d",
      is_important |-> TRUE],
     [id |-> "p3", frame_range |-> <<4, 4>>, legacy_step_name |-> "Swing"],
     [id |-> "p3", frame_range |-> <<4, 5>>, legacy_step_name |-> "Step2"],
     [id |-> "p4", event_window |-> [event |-> "e1", window_ms |-> <<-100, 200>>]]}

\* lists of phases with distinct ids
LegacyPhaseLists ==
    {ps \in SeqUpTo(LegacyPhases, Len(StepNames)) :
        \A i, j \in 1..Len(ps) : i < j => ps[i].id # ps[j].id}

BuildCalls ==
    {[fn |-> "build_step_ranges", rule_set |-> rs] :
        rs \in {<< >>} \cup {[phases |-> ps] : ps \in LegacyPhaseLists}}

\* " ".join(msgs): the messages with a space between neighbours
JoinSpace(msgs) ==
    [i \in 1..(2 * Len(msgs) - 1) |-> IF i % 2 = 1 THEN msgs[(i + 1) \div 2] ELSE " "]

\* the text a rule's verdict is reported as
DescText(rr) ==
    IF "passed" \notin DOMAIN rr THEN "Unknown"
    ELSE IF rr.passed = TRUE THEN "Correct"
    ELSE "Too different"

\* rr.get("label") or rule_id
LabelOf(rule_id, rr) ==
    IF Get(rr, "label", "None") \in {"None", ""} THEN rule_id ELSE rr.label

RECURSIVE LabelTexts(_, _)
\* the first loop over rules.items(): step_dict[label] = desc_text
LabelTexts(rules, n) ==
    IF n = 0 THEN <<>>
    ELSE DictPut(LabelTexts(rules, n - 1), LabelOf(rules[n].k, rules[n].v), DescText(rules[n].v))

\* the truthy messages of one rule's feedback entries
MessagesOf(rr) ==
    LET fbs == Get(rr, "feedback", <<>>) IN
    Filter([i \in 1..Len(fbs) |-> Get(fbs[i], "message", "")], LAMBDA msg : msg # "")

RECURSIVE FeedbackMsgs(_, _)
\* the second loop over rules.values(): feedback_msgs
FeedbackMsgs(rules, n) ==
    IF n = 0 THEN <<>> ELSE FeedbackMsgs(rules, n - 1) \o MessagesOf(rules[n].v)

\* d[k] = src[key] if key in src
PutIfIn(d, src, key, k) == IF key \in DOMAIN src THEN DictPut(d, k, src[key]) ELSE d

\* step_dict taking the messages of every rule but the last
StepDictMissingMessages(phase_result, phase) ==
    LET rules == Get(phase_result, "Rules", <<>>)
        msgs == FeedbackMsgs(rules, Max(Len(rules) - 1, 0))
        scored == PutIfIn(PutIfIn(LabelTexts(rules, Len(rules)), phase_result, "Score", "Score"),
                          phase_result, "StepClassification", "StepClassification")
    IN  PutIfIn(PutIfIn(PutIfIn(IF msgs # <<>> THEN DictPut(scored, "Feedback", JoinSpace(msgs))
                                ELSE scored,
                                phase, "label", "StepTitle"),
                        phase, "description", "StepDescription"),
                phase, "is_important", "IsImportant")

\* the step_dict of one phase result
StepDict(phase_result, phase) ==
    LET rules == Get(phase_result, "Rules", <<>>)
        msgs == FeedbackMsgs(rules, Len(rules))
        scored == PutIfIn(PutIfIn(LabelTexts(rules, Len(rules)), phase_result, "Score", "Score"),
                          phase_result, "StepClassification", "StepClassification")
    IN  PutIfIn(PutIfIn(PutIfIn(IF msgs # <<>> THEN DictPut(scored, "Feedback", JoinSpace(msgs))
                                ELSE scored,
                                phase, "label", "StepTitle"),
                        phase, "description", "StepDescription"),
                phase, "is_important", "IsImportant")

\* phase_map = {p.get("id"): p for p in phases}
PhaseMap(rs) ==
    DictFrom([i \in 1..Len(Get(rs, "phases", <<>>)) |-> Get(rs.phases[i], "id", "None")],
             Get(rs, "phases", <<>>))

RECURSIVE ToLegacy(_, _, _, _)
\* the loop of to_legacy_results over the first n entries of results
ToLegacy(results, phase_map, phase_id_to_step, n) ==
    IF n = 0 THEN <<>>
    ELSE IF ~HasKey(phase_map, results[n].k)
    THEN ToLegacy(results, phase_map, phase_id_to_step, n - 1)
    ELSE DictPut(ToLegacy(results, phase_map, phase_id_to_step, n - 1),
                 IF HasKey(phase_id_to_step, results[n].k)
                 THEN Lookup(phase_id_to_step, results[n].k) ELSE results[n].k,
                 StepDict(results[n].v, Lookup(phase_map, results[n].k)))

to_legacy_results(results, rs, phase_id_to_step) ==
    ToLegacy(results, PhaseMap(rs), phase_id_to_step, Len(results))

\* rule results as _evaluate_rule makes them, of a labelled and of an
\* unlabelled rule, over passing and failing conditions
LegacyRuleResults(rule_id) ==
    {RuleResult([id |-> rule_id, feedback |-> Feedbacks] @@ lb, crs) :
        lb \in {<< >>, [label |-> IF rule_id = "r1" THEN "rule one" ELSE "rule two"]},
        crs \in {<<ConditionResult("c1", TRUE, 2)>>,
                 <<ConditionResult("c1", FALSE, 2)>>,
                 <<ConditionResult("c1", FALSE, 2), ConditionResult("c3", FALSE, 0)>>}}

\* phase results as analyze makes them, and one whose rule has no verdict
LegacyPhaseResults ==
    {PhaseDict(rrs, << >>, <<0, 1>>, FALSE) :
        rrs \in {<<>>} \cup {<<a>> : a \in LegacyRuleResults("r1")}
                       \cup {<<a, b>> : a \in LegacyRuleResults("r1"),
                                        b \in LegacyRuleResults("r2")}}
    \cup {[Rules |-> <<[k |-> "r3", v |-> [rule_id |-> "r3", label |-> "None"]]>>]}

LegacyResults ==
    {<<[k |-> "p1", v |-> pr]>> : pr \in LegacyPhaseResults}
    \cup {<<[k |-> "p1", v |-> pr], [k |-> "_meta", v |-> [TimingsSec |-> "timings"]]>> :
            pr \in LegacyPhaseResults}
    \cup {<<[k |-> "p4", v |-> pr], [k |-> "p1", v |-> pr]>> : pr \in LegacyPhaseResults}

LegacyRuleSets ==
    {[phases |-> ps] :
        ps \in {<<Phase1>>, <<Phase2>>} \cup
               {ps \in LegacyPhaseLists : Len(ps) = 2 /\ ps[1].id = "p4" /\ ps[2].id = "p1"}}

\* the calls scoring_runner makes: the map is build_step_ranges' of the definition
LegacyCalls ==
    {[fn |-> "to_legacy_results", results |-> res, rule_set |-> rs,
      phase_id_to_step |-> build_step_ranges(rs)[2]] :
        res \in LegacyResults, rs \in LegacyRuleSets}

InitRules ==
    /\ rule_set = [phases |-> <<>>, rules |-> <<>>]
    /\ plugin = ScalarPlugin
    /\ student = Skeleton(0)
    /\ coach = Skeleton(0)
    /\ context = << >>
    /\ locals = [student_p |-> Skeleton(0), coach_p |-> Skeleton(0)]
    /\ phase_idx = 0
    /\ all_results = <<>>
    /\ evaluated = <<>>
    /\ pc = "call"
    /\ call \in ResolveCalls \cup MigrateCalls \cup ValidateCalls \cup BuildCalls \cup LegacyCalls
    /\ ret = NoRet
    /\ plugin_registry = <<>>

CallResolvePluginName ==
    /\ call.fn = "resolve_plugin_name"
    /\ Return(resolve_plugin_name(call.rule_set, call.plugin_name))

CallMigrate ==
    /\ pc = "call"
    /\ call.fn = "migrate_v1_to_v2"
    /\ pc' = "returned"
    /\ ret' = migrate_v1_to_v2(call.rule_set, call.kw).ret
    /\ call' = [call EXCEPT !.rule_set = migrate_v1_to_v2(call.rule_set, call.kw).rule_set_v1]
    /\ UNCHANGED <<inputs, locals, phase_idx, all_results, evaluated, plugin_registry>>

CallValidateReferences ==
    /\ call.fn = "validate_references"
    /\ Return(validate_references(call.rule_set))

CallBuildStepRanges ==
    /\ call.fn = "build_step_ranges"
    /\ Return(Ok(build_step_ranges(call.rule_set)))

CallToLegacyResults ==
    /\ call.fn = "to_legacy_results"
    /\ Return(Ok(to_legacy_results(call.results, call.rule_set, call.phase_id_to_step)))

NextRules ==
    \/ CallResolvePluginName
    \/ CallMigrate
    \/ CallValidateReferences
    \/ CallBuildStepRanges
    \/ CallToLegacyResults

SpecRules == InitRules /\ [][NextRules]_vars

----------------------------------------------------------------------------
(* properties of the evaluator's functions, checked under SpecCalls *)

Returned(fn) == pc = "returned" /\ call.fn = fn

\* the number of condition results that passed
PassedCount(crs) == Cardinality({i \in 1..Len(crs) : crs[i].passed})

\* the rational r is the quotient a / b
IsQuotient(r, a, b) == b # 0 /\ r.n * b = a * r.d

\* C4: classify_step returns "correct" iff the list of pass flags is non-empty
\* and all are true, "wrong" iff it is non-empty and all are false, and "mid"
\* in every other case, the empty list included.
C4_ClassifyStep ==
    Returned("classify_step") =>
        LET rr == call.rule_results
            all_true == rr # <<>> /\ \A i \in 1..Len(rr) : rr[i][2] = TRUE
            all_false == rr # <<>> /\ \A i \in 1..Len(rr) : rr[i][2] = FALSE
        IN  /\ ret.exc = "none"
            /\ (ret.val = "correct") <=> all_true
            /\ (ret.val = "wrong") <=> all_false
            /\ (ret.val = "mid") <=> (~all_true /\ ~all_false)

C4_Witness ==
    /\ Returned("classify_step")
    /\ Len(call.rule_results) = 2
    /\ call.rule_results[1][2] /\ ~call.rule_results[2][2]
    /\ ret.val = "mid"

\* the sum of the declared weights of the conditions that passed
PassedWeight(weights, crs) ==
    SumSeq([i \in 1..Len(crs) |->
              IF crs[i].passed /\ crs[i].id \in DOMAIN weights THEN weights[crs[i].id] ELSE 0])

\* what C5 says of every mode but weighted
UnweightedScoreAsClaimed(mode, max_score, pass_score, crs) ==
    IF crs = <<>> THEN IsQuotient(ret.val, max_score, 1)
    ELSE IF mode = "all-or-nothing"
         THEN IsQuotient(ret.val, IF PassedCount(crs) = Len(crs) THEN max_score ELSE 0, 1)
    ELSE IF mode = "average" THEN IsQuotient(ret.val, max_score * PassedCount(crs), Len(crs))
    ELSE IsQuotient(ret.val, IF PassedCount(crs) = Len(crs) THEN pass_score ELSE 0, 1)

\* C5: aggregate_score returns max_score for no condition results; otherwise
\* max_score or 0 (all-or-nothing), max_score * passed / total (average),
\* max_score * (declared weights of the passed conditions) / (sum of all
\* declared weights, or 1 if none are declared) (weighted, wherever that
\* divisor is not zero), and pass_score or 0 for any other mode.
C5_AggregateScore ==
    Returned("aggregate_score") =>
        LET cfg == call.score_cfg
            crs == call.cond_results
            mode == Get(cfg, "mode", "all-or-nothing")
            max_score == Get(cfg, "max_score", 1)
            weights == Get(cfg, "weights", << >>)
            total_w == IF DOMAIN weights = {} THEN 1 ELSE SumValues(weights)
        IN  /\ ret.exc = "none"
            /\ IF crs # <<>> /\ mode = "weighted"
               THEN total_w # 0 => IsQuotient(ret.val, max_score * PassedWeight(weights, crs), total_w)
               ELSE UnweightedScoreAsClaimed(mode, max_score, Get(cfg, "pass_score", 1), crs)

C5_Witness ==
    /\ Returned("aggregate_score")
    /\ Get(call.score_cfg, "mode", "") = "weighted"
    /\ Get(call.score_cfg, "weights", << >>) = [c1 |-> 1, c2 |-> 2]
    /\ Len(call.cond_results) = 2
    /\ PassedCount(call.cond_results) = 1
    /\ ret.val = [n |-> 100, d |-> 3]

\* the call of C6: mode average, max_score 100, three results, two passed
AverageTwoOfThree ==
    /\ Returned("aggregate_score")
    /\ Get(call.score_cfg, "mode", "") = "average"
    /\ Get(call.score_cfg, "max_score", 1) = 100
    /\ Len(call.cond_results) = 3
    /\ PassedCount(call.cond_results) = 2

\* C6 as stated: aggregate_score with mode average, max_score 100 and three
\* condition results of which two passed returns 66, the truncated quotient.
C6_AsStated == AverageTwoOfThree => ret.val = [n |-> 66, d |-> 1]

\* C6 amended: that call returns the quotient 100 * 2 / 3 itself (66.67), not
\* truncated to an integer.
C6_AverageNotTruncated ==
    AverageTwoOfThree => /\ IsQuotient(ret.val, 200, 3)
                         /\ ret.val.d # 1

C6_Witness == AverageTwoOfThree /\ ret.val = [n |-> 200, d |-> 3]

\* the condition of the call with its tolerance set to t
WithTolerance(cond, t) == [tolerance |-> t] @@ cond

\* the condition passes for the value lhs
Passes(lhs, cond) ==
    LET r == _evaluate_numeric_condition(lhs, cond) IN r.exc = "none" /\ r.val = TRUE

\* whenever the called condition passes with a tolerance t1, it passes with
\* its own tolerance t2 >= t1
PassKeptByWidening ==
    \A t1 \in 0..Get(call.cond, "tolerance", 0) :
        Passes(call.lhs, WithTolerance(call.cond, t1)) => (ret.exc = "none" /\ ret.val = TRUE)

C8_RangeBetweenSymmetric ==
    (/\ Returned("_evaluate_numeric_condition")
     /\ call.cond.type = "range" \/ call.cond.op = "between"
     /\ call.cond.value.tag = "list"
     /\ "abs_val" \notin DOMAIN call.cond)
        => LET lo == call.cond.value.items[1]
               hi == call.cond.value.items[2]
               t == Get(call.cond, "tolerance", 0)
           IN  /\ ret.exc = "none"
               /\ ret.val = (Min(lo, hi) - t <= call.lhs /\ call.lhs <= Max(lo, hi) + t)

\* the indexes of the feedback entries that share an id with the failed conditions
Overlapping(feedback, crs) ==
    {i \in 1..Len(feedback) :
        \E j \in 1..Len(crs) :
            /\ ~crs[j].passed
            /\ "condition_ids" \in DOMAIN feedback[i]
            /\ \E k \in 1..Len(feedback[i].condition_ids) :
                  feedback[i].condition_ids[k] = crs[j].id}

\* C10: select_feedback returns, in declaration order, exactly the feedback
\* entries whose condition_ids share at least one id with the failed
\* conditions; an entry is selected even when only some of its conditions
\* failed, and none is selected when every condition passed.
C10_SelectFeedback ==
    Returned("select_feedback") =>
        LET feedback == Get(call.rule, "feedback", <<>>)
            sel == Overlapping(feedback, call.cond_results)
        IN  /\ ret.exc = "none"
            /\ Len(ret.val) = Cardinality(sel)
            /\ \A i \in sel : ret.val[Cardinality({k \in sel : k <= i})] = feedback[i]
            /\ PassedCount(call.cond_results) = Len(call.cond_results) => ret.val = <<>>

C10_Witness ==
    /\ Returned("select_feedback")
    /\ Len(Get(call.rule, "feedback", <<>>)) = 2
    /\ Get(call.rule.feedback[2], "condition_ids", <<>>) = <<"c1", "c2">>
    /\ \E i, j \in 1..Len(call.cond_results) :
          /\ call.cond_results[i].id = "c1" /\ call.cond_results[i].passed
          /\ call.cond_results[j].id = "c2" /\ ~call.cond_results[j].passed
    /\ ret.val = <<call.rule.feedback[2]>>

----------------------------------------------------------------------------
(* properties of RuleEngine.analyze, checked under Spec *)

ProfilingOff == ~Get(context, "profile_timings", FALSE)

DeclaredPhaseIds == [i \in 1..Len(rule_set.phases) |-> rule_set.phases[i].id]

\* the entry of a phase records, in rule-list order, the rules attached to it
RecordsRulesOf(entry, phase_id) ==
    LET attached == PhaseRules(rule_set, phase_id) IN
    /\ Len(entry.Rules) = Len(attached)
    /\ \A j \in 1..Len(attached) :
          /\ entry.Rules[j].k = attached[j].id
          /\ entry.Rules[j].v.rule_id = attached[j].id

\* C1: when analyze completes without error (profiling off), the returned
\* mapping has exactly one entry per declared phase, in phase-declaration
\* order, and the rules recorded for a phase are exactly the rules whose
\* phase equals that phase id, in rule-list order.
C1_OneEntryPerPhase ==
    (pc = "done" /\ ProfilingOff) =>
        /\ ret.exc = "none"
        /\ Keys(ret.val) = DeclaredPhaseIds
        /\ \A i \in 1..Len(ret.val) : RecordsRulesOf(ret.val[i].v, ret.val[i].k)

\* the operator, condition-type and aggregation-mode names of the evaluator
NumericOpNames == {"gte", "gt", "lte", "lt", "eq", "neq", "between"}

BooleanOpNames == {"is_true", "is_false"}

TypeNames ==
    {"threshold", "range", "boolean", "event_exists", "trend", "angle", "distance", "composite"}

ModeNames == {"all-or-nothing", "average", "weighted"}

UnsupportedOp(cond) ==
    \/ cond.type \in {"threshold", "range"} /\ Get(cond, "op", "None") \notin NumericOpNames
    \/ cond.type = "boolean" /\ Get(cond, "op", "None") \notin BooleanOpNames

\* the rule has an unsupported operator, condition type or aggregation mode,
\* or refers to a phase that is not declared
ConfigurationError(rule) ==
    \/ \E k \in 1..Len(CondsOf(rule)) :
          UnsupportedOp(rule.conditions[k]) \/ rule.conditions[k].type \notin TypeNames
    \/ "score" \in DOMAIN rule /\ Get(rule.score, "mode", "all-or-nothing") \notin ModeNames
    \/ \A i \in 1..Len(rule_set.phases) : rule_set.phases[i].id # rule.phase

\* the types whose evaluation needs more than the scalar metrics
RichTypes == {"trend", "angle", "distance", "event_exists", "composite"}

\* the data the condition at position k of the rule needs is there:
\* its metric among the phase's scalar metrics, its series among the plugin's
\* series for the phase with two samples or more, its event in
\* context.events, the conditions it refers to before it in the rule, frames
\* in the phase's extracted subsequences
DataAvailable(rule, k) ==
    LET cond == rule.conditions[k]
        series == compute_metric_series(plugin, rule.phase, NoData, NoData)
    IN  CASE cond.type \in {"threshold", "range", "boolean"} ->
                 /\ rule.phase \in DOMAIN plugin.metrics
                 /\ cond.metric \in DOMAIN plugin.metrics[rule.phase]
          [] cond.type = "trend" ->
                 cond.metric \in DOMAIN series /\ Len(series[cond.metric]) >= 2
          [] cond.type = "event_exists" ->
                 cond.event \in DOMAIN Get(context, "events", << >>)
          [] cond.type = "composite" ->
                 \A r \in Range(cond.conditions) :
                     \E j \in 1..(k - 1) : rule.conditions[j].id = r
          [] OTHER -> student.len > 0 /\ coach.len > 0

\* analyze is over, for a definition whose phases the plugin knows, having a
\* rule with a condition of a rich type, every condition having its data
RichRuleWithData ==
    /\ pc \in {"done", "raised"}
    /\ \A i \in 1..Len(rule_set.phases) : rule_set.phases[i].id \in DOMAIN plugin.metrics
    /\ \A i \in 1..Len(rule_set.rules) : ~ConfigurationError(rule_set.rules[i])
    /\ \E i \in 1..Len(rule_set.rules) :
          \E k \in 1..Len(CondsOf(rule_set.rules[i])) :
              rule_set.rules[i].conditions[k].type \in RichTypes
    /\ \A i \in 1..Len(rule_set.rules) :
          \A k \in 1..Len(CondsOf(rule_set.rules[i])) : DataAvailable(rule_set.rules[i], k)

\* C2: a rule with a trend, angle, distance, event_exists or composite
\* condition whose data is available is evaluated to a pass/fail verdict
\* (analyze hands the evaluator the metrics, the plugin's series, the context
\* and the extracted frames) instead of aborting the call.
C2_RichConditionsEvaluated ==
    RichRuleWithData =>
        /\ pc = "done"
        /\ ret.exc = "none"
        /\ \A i \in 1..Len(evaluated) :
              \A j \in 1..Len(evaluated[i].rule_results) :
                  \A k \in 1..Len(evaluated[i].rule_results[j].conditions) :
                      evaluated[i].rule_results[j].conditions[k].passed \in BOOLEAN

PassedRules(rule_results) == Cardinality({j \in 1..Len(rule_results) : rule_results[j].passed})

\* s is the integer truncation of the mean of 100 per passed and 30 per failed rule
IsTruncatedMean(s, rule_results) ==
    LET n == Len(rule_results)
        total == 100 * PassedRules(rule_results) + 30 * (n - PassedRules(rule_results))
    IN  s * n <= total /\ total < (s + 1) * n

\* C3: for every phase with at least one rule, the phase's Score is the
\* integer truncation of the unweighted mean over its rules of 100 (passed)
\* and 30 (failed); so it lies in 30..100.
C3_StepScore ==
    \A i \in 1..Len(evaluated) :
        evaluated[i].rule_results # <<>> =>
            /\ all_results[i].k = evaluated[i].phase_id
            /\ IsTruncatedMean(all_results[i].v.Score, evaluated[i].rule_results)
            /\ all_results[i].v.Score \in 30..100

C3_Witness ==
    /\ pc = "done"
    /\ \E i \in 1..Len(evaluated) :
          /\ Len(evaluated[i].rule_results) = 3
          /\ PassedRules(evaluated[i].rule_results) = 2
          /\ ret.val[i].v.Score = 76

\* C9: a rule's passed flag is the conjunction of the pass flags of all its
\* condition results, and is true when the rule has no conditions.
C9_RulePassedIsConjunction ==
    \A i \in 1..Len(evaluated) :
        \A j \in 1..Len(evaluated[i].rule_results) :
            LET rr == evaluated[i].rule_results[j] IN
            /\ rr.passed = (\A k \in 1..Len(rr.conditions) : rr.conditions[k].passed)
            /\ rr.conditions = <<>> => rr.passed

C9_Witness ==
    /\ pc = "done"
    /\ \E i \in 1..Len(evaluated) :
          \E j \in 1..Len(evaluated[i].rule_results) :
              LET rr == evaluated[i].rule_results[j] IN
              /\ Len(rr.conditions) = 2
              /\ rr.conditions[1].passed /\ ~rr.conditions[2].passed
              /\ ~rr.passed

----------------------------------------------------------------------------
(* properties of phase resolution and of evaluate_condition, checked under
   SpecEvaluate *)

\* the call resolves an event-window phase whose event, window and fps are there
ResolvesEventWindow ==
    /\ Returned("_phase_frame_range")
    /\ "frame_range" \notin DOMAIN call.phase
    /\ "event_window" \in DOMAIN call.phase
    /\ "event" \in DOMAIN call.phase.event_window
    /\ Len(Get(call.phase.event_window, "window_ms", <<>>)) = 2
    /\ "expected_fps" \in DOMAIN rule_set.inputs
    /\ call.phase.event_window.event \in DOMAIN Get(context, "events", << >>)
    /\ LET ev == context.events[call.phase.event_window.event]
       IN  ev.tag = "dict" => DOMAIN ev.d \cap {"frame", "ts_ms"} # {}

\* the event frame e: a bare index, a frame field, or round(ts_ms * fps / 1000)
EventFrame ==
    LET ev == context.events[call.phase.event_window.event] IN
    IF ev.tag = "num" THEN ev.n
    ELSE IF "frame" \in DOMAIN ev.d THEN ev.d.frame
    ELSE PyRound(ev.d.ts_ms * rule_set.inputs.expected_fps, 1000)

\* the bounds a and b of the window, and the smaller and the larger of them
WindowA == EventFrame + PyRound(call.phase.event_window.window_ms[1] * rule_set.inputs.expected_fps, 1000)

WindowB == EventFrame + PyRound(call.phase.event_window.window_ms[2] * rule_set.inputs.expected_fps, 1000)

ClampInto(x, max_frame) == Max(0, Min(x, max_frame))

\* C11 as stated: for an event-window phase with event frame e, the bounds
\* are a = e + round(pre_ms * fps / 1000) and b = e + round(post_ms * fps /
\* 1000), swapped if a > b; start and end are each clamped into
\* [0, max_frame], and the result is the inclusive sequence start..end.
C11_AsStated ==
    ResolvesEventWindow =>
        /\ ret.exc = "none"
        /\ ret.val = RangeList(ClampInto(Min(WindowA, WindowB), call.max_frame),
                               ClampInto(Max(WindowA, WindowB), call.max_frame))

\* C11 amended: as C11, but start is only raised to at least 0 and end only
\* lowered to at most max_frame; the result is the inclusive sequence
\* start..end, which is empty when the window lies wholly outside
\* [0, max_frame] (for fps 30, event frame 90, window_ms [-100, 200] and a
\* long enough sequence: 87..96).
C11_EventWindow ==
    ResolvesEventWindow =>
        /\ ret.exc = "none"
        /\ ret.val = RangeList(Max(0, Min(WindowA, WindowB)),
                               Min(Max(WindowA, WindowB), call.max_frame))
        /\ (EventFrame = 90 /\ call.phase.event_window.window_ms = <<-100, 200>>
              /\ call.max_frame >= 96) => ret.val = RangeList(87, 96)

C11_Witness ==
    /\ ResolvesEventWindow
    /\ context.events.e1 = Num(90)
    /\ call.phase.event_window.window_ms = <<200, -100>>
    /\ call.max_frame = 100
    /\ ret.val = RangeList(87, 96)

\* C12: phase frame-range resolution raises, yielding no range, when the
\* phase is an event window and the named event is absent from
\* context.events, or expected_fps is not configured, or window_ms does not
\* have exactly two values; and when the phase has neither frame_range nor
\* event_window.
C12_ResolutionRaises ==
    (/\ Returned("_phase_frame_range")
     /\ "frame_range" \notin DOMAIN call.phase
     /\ \/ "event_window" \notin DOMAIN call.phase
        \/ /\ "event_window" \in DOMAIN call.phase
           /\ \/ Get(call.phase.event_window, "event", "") \notin DOMAIN Get(context, "events", << >>)
              \/ "expected_fps" \notin DOMAIN rule_set.inputs
              \/ Len(Get(call.phase.event_window, "window_ms", <<>>)) # 2)
        => (ret.exc # "none" /\ ret.val = "no value")

C12_Witness ==
    /\ Returned("_phase_frame_range")
    /\ call.phase = [id |-> "p1", event_window |-> [event |-> "e1", window_ms |-> <<-100, 200>>]]
    /\ "expected_fps" \in DOMAIN rule_set.inputs
    /\ context = [events |-> << >>]
    /\ ret.exc = "ValueError"

\* C15: evaluating a threshold, range or boolean condition whose named
\* metric is absent from the computed metrics mapping raises a missing-metric
\* error and never returns a ConditionResult.
C15_MissingMetricRaises ==
    (/\ Returned("evaluate_condition")
     /\ call.cond.type \in {"threshold", "range", "boolean"}
     /\ Get(call.cond, "metric", "None") \notin DOMAIN call.metrics)
        => ret = Raise("KeyError")

C15_Witness ==
    /\ Returned("evaluate_condition")
    /\ call.cond = CondBool
    /\ call.metrics = [m1 |-> 2]
    /\ ret.exc = "KeyError"

\* C17: an event_exists condition with a non-empty event name returns a
\* ConditionResult whose pass flag is true exactly when that event is present
\* in context.events (a false verdict, not an error, when it is absent); with
\* an empty or whitespace-only event name the evaluation raises.
C17_EventExists ==
    (Returned("evaluate_condition") /\ call.cond.type = "event_exists") =>
        LET event_name == Strip(Get(call.cond, "event", "")) IN
        IF event_name = "" THEN ret.exc # "none"
        ELSE /\ ret.exc = "none"
             /\ ret.val.passed = (event_name \in DOMAIN Get(context, "events", << >>))

\* the trend condition of the call is well formed and its series is there
DecidesTrend ==
    /\ Returned("evaluate_condition")
    /\ call.cond.type = "trend"
    /\ call.cond.op \in {"increasing", "decreasing"}
    /\ Get(call.cond, "metric", "") \in DOMAIN call.metric_series
    /\ "window_frames" \in DOMAIN call.cond => call.cond.window_frames >= 1
    /\ "window_ms" \in DOMAIN call.cond =>
          Len(call.cond.window_ms) = 2 /\ "expected_fps" \in DOMAIN context

\* the last N samples for window_frames = N
FramesWindow ==
    IF "window_frames" \in DOMAIN call.cond
    THEN LastN(call.metric_series[call.cond.metric], call.cond.window_frames)
    ELSE call.metric_series[call.cond.metric]

\* max(2, round(duration_ms * fps / 1000))
WindowMsCount ==
    Max(2, PyRound(Abs(call.cond.window_ms[2] - call.cond.window_ms[1]) * context.expected_fps,
                   1000))

\* the windowed series of the call
TrendWindow ==
    IF "window_ms" \in DOMAIN call.cond THEN LastN(FramesWindow, WindowMsCount) ELSE FramesWindow

\* C18: a trend condition is decided on the windowed series (the last N
\* samples for window_frames = N; the last max(2, round(duration_ms * fps /
\* 1000)) samples for window_ms): its value is last - first of the window, it
\* passes iff that delta is > 0 for increasing or < 0 for decreasing (a zero
\* delta passes neither), and it raises when fewer than 2 samples remain.
C18_Trend ==
    DecidesTrend =>
        IF Len(TrendWindow) < 2 THEN ret.exc # "none"
        ELSE LET delta == TrendWindow[Len(TrendWindow)] - TrendWindow[1] IN
             /\ ret.exc = "none"
             /\ ret.val.value = delta
             /\ ret.val.passed = IF call.cond.op = "increasing" THEN delta > 0 ELSE delta < 0

C18_Witness ==
    /\ DecidesTrend
    /\ call.metric_series.s1 = <<4, 3, 2, 2>>
    /\ call.cond.op = "decreasing"
    /\ "window_ms" \in DOMAIN call.cond /\ "window_frames" \notin DOMAIN call.cond
    /\ WindowMsCount = 2
    /\ ret.exc = "none" /\ ret.val.value = 0 /\ ~ret.val.passed

\* the pass flags of the conditions the composite of the call refers to
ReferencedFlags ==
    {call.cond_results_by_id[r].passed : r \in Range(Get(call.cond, "conditions", <<>>))}

\* C19: evaluate_composite_condition passes iff all referenced conditions
\* passed (logic all), at least one passed (any), or none passed (none); it
\* raises, returning no result, when a referenced id has no result, when the
\* reference list is empty, or when the logic is not one of the three.
C19_Composite ==
    Returned("evaluate_composite_condition") =>
        IF \/ Get(call.cond, "conditions", <<>>) = <<>>
           \/ ~(Range(call.cond.conditions) \subseteq DOMAIN call.cond_results_by_id)
           \/ Get(call.cond, "logic", "None") \notin {"all", "any", "none"}
        THEN ret.exc # "none" /\ ret.val = "no value"
        ELSE /\ ret.exc = "none"
             /\ ret.val.passed = CASE call.cond.logic = "all" -> ReferencedFlags = {TRUE}
                                   [] call.cond.logic = "any" -> TRUE \in ReferencedFlags
                                   [] call.cond.logic = "none" -> ReferencedFlags = {FALSE}

C19_Witness ==
    /\ Returned("evaluate_composite_condition")
    /\ Get(call.cond, "logic", "None") = "none"
    /\ Get(call.cond, "conditions", <<>>) = <<"c1", "c2">>
    /\ DOMAIN call.cond_results_by_id = {"c1", "c2"}
    /\ call.cond_results_by_id["c1"].passed /\ ~call.cond_results_by_id["c2"].passed
    /\ ret.exc = "none" /\ ~ret.val.passed

----------------------------------------------------------------------------
(* further properties of RuleEngine.analyze, checked under Spec *)

\* the frames a stored phase result was extracted at
StoredFrames == {all_results[i].v.FrameRange : i \in 1..Len(all_results)}

\* C13: for every phase, also one whose explicit frame_range extends past the
\* end of the student or coach sequence, the frame indices used for
\* extraction are truncated to the shorter sequence: extraction never reads
\* an index outside either sequence (analyze does not fail on one), and both
\* subsequences have the phase's frame count.
C13_FramesTruncated ==
    /\ ret.exc # "IndexError"
    /\ \A frames \in StoredFrames :
          \A i \in 1..Len(frames) : frames[i] \in 0..(Min(student.len, coach.len) - 1)

\* C14: configuration errors never yield a verdict or score: a rule
\* definition with an unsupported operator name (threshold, range, boolean),
\* an unsupported condition type, an unsupported aggregation mode, or a rule
\* whose phase names no declared phase makes analyze raise, not return.
C14_ConfigurationErrorsRaise ==
    pc = "done" => \A i \in 1..Len(rule_set.rules) : ~ConfigurationError(rule_set.rules[i])

\* C16: if resolving, computing metrics for, or evaluating any rule of any
\* phase raises, analyze propagates the error and returns no result mapping:
\* nothing for the failing phase, nothing for the phases evaluated before it.
C16_NoPartialResult ==
    /\ pc = "raised" => (ret.exc # "none" /\ ret.val = "no value")
    /\ pc = "done" =>
          \A i \in 1..Len(rule_set.phases) :
              AnalyzePhaseBody(rule_set, plugin, context, locals, rule_set.phases[i]).exc = "none"

C16_Witness ==
    /\ pc = "raised"
    /\ Len(all_results) = 1
    /\ Len(rule_set.phases) = 2
    /\ ret = Raise("IndexError")

----------------------------------------------------------------------------
(* properties of PluginRegistry, checked under SpecRegistry *)

\* every registration of the registry is still there, at its place, after the step
RegistrationsKept ==
    /\ Len(plugin_registry') >= Len(plugin_registry)
    /\ \A i \in 1..Len(plugin_registry) : plugin_registry'[i] = plugin_registry[i]

\* the step is a register call: it raises when the name is empty, whitespace
\* only or already registered, and a failed register changes nothing
RegisterAsClaimed ==
    call'.fn = "register" =>
        /\ (\/ Strip(call'.name) = ""
            \/ HasKey(plugin_registry, Strip(call'.name))) => ret'.exc # "none"
        /\ ret'.exc # "none" => plugin_registry' = plugin_registry

\* the step is a create call: it changes nothing, and on a name that is not
\* registered raises naming all the registered names
CreateAsClaimed ==
    call'.fn = "create" =>
        /\ plugin_registry' = plugin_registry
        /\ ~HasKey(plugin_registry, call'.name) =>
              /\ ret'.exc = "KeyError"
              /\ ret'.names = IF plugin_registry = <<>> THEN "<none>"
                              ELSE {plugin_registry[i].k : i \in 1..Len(plugin_registry)}

\* C20: for any sequence of register and create calls: register raises when
\* the name is empty, whitespace-only or already registered, and a failed
\* register leaves the registered names and factories unchanged (a
\* registration is never overwritten or removed); create on a name that is
\* not registered raises with a message listing all registered names, and
\* create never changes the registry.
C20_RegistryCalls == [][RegisterAsClaimed /\ CreateAsClaimed /\ RegistrationsKept]_vars

C20_Witness ==
    /\ call = [fn |-> "register", name |-> " a ", factory |-> "f2"]
    /\ ret.exc = "ValueError"
    /\ Len(plugin_registry) = 2
    /\ HasKey(plugin_registry, "a")
    /\ Lookup(plugin_registry, "a") = RegisteredPlugin("a", "f1")

----------------------------------------------------------------------------
(* further properties of RuleEngine.analyze, checked under Spec *)

\* the declared preprocessing steps
DeclaredSteps == rule_set.inputs.preprocess

\* the declared steps that are among names, in declared order
StepsAmong(names) == Filter(DeclaredSteps, LAMBDA st : st \in names)

\* the rule definition with the unknown step names removed
WithoutUnknownSteps ==
    [rule_set EXCEPT !.inputs.preprocess =
        StepsAmong({"align_orientation", "normalize_lengths"})]

\* C26: preprocessing is applied once per analyze call to the whole pair,
\* before any phase is resolved: from the first phase to the return the
\* preprocessed pair is the inputs with the known steps applied in declared
\* order (align_orientation to both, normalize_lengths to the student); an
\* unknown step name is skipped without error, the pair being the one the
\* list without the unknown names gives; the caller's sequences are untouched.
C26_Preprocess ==
    /\ student.prep = <<>> /\ coach.prep = <<>>
    /\ pc \in {"loop", "done", "raised"} =>
          /\ locals.student_p =
                [len |-> student.len,
                 prep |-> StepsAmong({"align_orientation", "normalize_lengths"})]
          /\ locals.coach_p =
                [len |-> coach.len, prep |-> StepsAmong({"align_orientation"})]
          /\ locals = _apply_preprocess(WithoutUnknownSteps, student, coach)

C26_Witness ==
    /\ pc = "done"
    /\ DeclaredSteps = <<"align_orientation", "unknown_step", "normalize_lengths">>
    /\ locals.student_p.prep = <<"align_orientation", "normalize_lengths">>
    /\ Len(ret.val) = 2

\* the phase results analyze returned
ReturnedPhaseResults ==
    {ret.val[i].v : i \in {j \in 1..Len(ret.val) : ret.val[j].k # "_meta"}}

\* C27: in every phase result returned by analyze, StepClassification is
\* "correct" iff Score = 100 and "wrong" iff Score = 30; a phase without rules
\* is not reported with Score 100 and the classification "mid".
C27_ScoreAgreesWithClassification ==
    pc = "done" =>
        \A pr \in ReturnedPhaseResults :
            /\ pr.StepClassification = "correct" <=> pr.Score = 100
            /\ pr.StepClassification = "wrong" <=> pr.Score = 30

\* C30: in every phase result returned by analyze, the number of entries
\* under Rules equals the number of rules evaluated for the phase and
\* averaged into Score, also when two rules of the phase carry the same id.
C30_EveryRuleVisible ==
    pc = "done" =>
        \A i \in 1..Len(evaluated) :
            \E e \in 1..Len(ret.val) :
                /\ ret.val[e].k = evaluated[i].phase_id
                /\ Len(ret.val[e].v.Rules) = Len(evaluated[i].rule_results)

----------------------------------------------------------------------------
(* a further property of the plugin registry, checked under SpecRegistry *)

\* C28: every name for which a register call returned successfully can be
\* created: create with exactly the name string passed to register returns a
\* plugin instance and does not raise, whitespace around the name included.
\* Stated for the state a successful register call leaves.
C28_RegisteredIsCreatable ==
    (call.fn = "register" /\ ret.exc = "none") =>
        create(plugin_registry, call.name).ret.exc = "none"

----------------------------------------------------------------------------
(* properties of plugin selection, migration, validation and the legacy
   adapter, checked under SpecRules *)

\* the definition's schema_version is a valid x.y.z
HasValidVersion(rs) ==
    /\ "schema_version" \in DOMAIN rs
    /\ ~rs.schema_version.lpad
    /\ Len(rs.schema_version.parts) = 3
    /\ Range(rs.schema_version.parts) \subseteq DigitStrings

\* its major version is one of the set majors
HasMajorIn(rs, majors) == HasValidVersion(rs) /\ rs.schema_version.parts[1] \in majors

\* C21: resolve_plugin_name returns the requested name verbatim when it is
\* given and is not auto; otherwise, for schema major >= 2 it returns
\* metric_profile.id (surrounding whitespace removed), or generic_core when
\* that id is missing or empty; for schema major 1 it returns the
\* definition's sport, and raises when sport is absent or empty.
C21_ResolvePluginName ==
    Returned("resolve_plugin_name") =>
        LET rs == call.rule_set
            id == Strip(Get(Get(rs, "metric_profile", << >>), "id", ""))
        IN  IF call.plugin_name \notin {"None", "", "auto"} THEN ret = Ok(call.plugin_name)
            ELSE /\ HasMajorIn(rs, {"2", "3"}) =>
                       ret = Ok(IF id = "" THEN "generic_core" ELSE id)
                 /\ HasMajorIn(rs, {"1"}) =>
                       IF Get(rs, "sport", "") = "" THEN ret.exc # "none" ELSE ret = Ok(rs.sport)

C21_Witness ==
    /\ Returned("resolve_plugin_name")
    /\ call.plugin_name = "auto"
    /\ HasMajorIn(call.rule_set, {"2"})
    /\ Get(call.rule_set, "sport", "") = "baseball"
    /\ Get(call.rule_set, "metric_profile", << >>) = [id |-> "a"]
    /\ ret = Ok("a")

\* C22: migrate_v1_to_v2 raises for any input whose schema_version is not a
\* valid x.y.z with major 1; for a schema-major-1 definition it returns a
\* schema 2.0.0 definition whose phases, rules, metadata, sport and
\* sport_version are the input's, whose metric_profile.id is generic_core when
\* no profile id is supplied, and it leaves the input definition as it was.
C22_Migrate ==
    Returned("migrate_v1_to_v2") =>
        LET rs == call.given IN
        /\ call.rule_set = rs
        /\ ~HasMajorIn(rs, {"1"}) => ret.exc # "none"
        /\ (HasMajorIn(rs, {"1"}) /\ "rule_set_id" \in DOMAIN rs) =>
              /\ ret.exc = "none"
              /\ ret.val[1].schema_version = [lpad |-> FALSE, parts |-> <<"2", "0", "0">>]
              /\ ret.val[1].phases = Get(rs, "phases", <<>>)
              /\ ret.val[1].rules = Get(rs, "rules", <<>>)
              /\ ret.val[1].metadata = Get(rs, "metadata", << >>)
              /\ \A key \in {"sport", "sport_version"} :
                    IF Get(rs, key, "") # "" THEN Get(ret.val[1], key, "") = rs[key]
                    ELSE key \notin DOMAIN ret.val[1]
              /\ "profile_id" \notin DOMAIN call.kw => ret.val[1].metric_profile.id = "generic_core"

C22_Witness ==
    /\ Returned("migrate_v1_to_v2")
    /\ ret.exc = "none"
    /\ Get(call.given, "sport", "") = "baseball"
    /\ Get(call.given, "sport_version", "") = "1.0"
    /\ Get(call.given, "phases", <<>>) # <<>>
    /\ call.kw = << >>
    /\ Get(ret.val[1], "sport", "") = "baseball"

\* C29: migration preserves automatic plugin selection: for every schema-1
\* definition with a sport, resolve_plugin_name(definition, auto) and
\* resolve_plugin_name(migrate_v1_to_v2(definition) with default arguments,
\* auto) return the same plugin name.
C29_MigrationKeepsPlugin ==
    (/\ Returned("migrate_v1_to_v2")
     /\ ret.exc = "none"
     /\ call.kw = << >>
     /\ Get(call.given, "sport", "") # "") =>
        resolve_plugin_name(ret.val[1], "auto") = resolve_plugin_name(call.given, "auto")

\* the ids of a list of items are pairwise distinct
PairwiseDistinct(items) ==
    Cardinality({items[i].id : i \in 1..Len(items)}) = Len(items)

\* the ref is the literal phase:<id> with <id> a declared phase id
IsPhaseRef(signal, phases) ==
    /\ "ref" \in DOMAIN signal
    /\ \E p \in 1..Len(phases) : signal.ref = [prefix |-> "phase:", rest |-> phases[p].id]

ReferencesHold(rs) ==
    LET phases == Get(rs, "phases", <<>>)
        rules == Get(rs, "rules", <<>>)
    IN  /\ PairwiseDistinct(phases)
        /\ PairwiseDistinct(rules)
        /\ \A i \in 1..Len(rules) :
              /\ \E p \in 1..Len(phases) : phases[p].id = rules[i].phase
              /\ PairwiseDistinct(rules[i].conditions)
              /\ \A f \in 1..Len(Get(rules[i], "feedback", <<>>)) :
                    \A c \in 1..Len(rules[i].feedback[f].condition_ids) :
                        \E k \in 1..Len(rules[i].conditions) :
                            rules[i].conditions[k].id = rules[i].feedback[f].condition_ids[c]
              /\ ("signal" \in DOMAIN rules[i] /\ rules[i].signal.type = "frame_range_ref") =>
                    IsPhaseRef(rules[i].signal, phases)

\* C23: validate_references returns True exactly when phase ids are pairwise
\* distinct, rule ids are pairwise distinct, every rule's phase is declared,
\* condition ids are distinct within each rule, every condition id a feedback
\* entry names exists in the same rule, and every frame_range_ref signal has a
\* ref phase:<id> with <id> a declared phase id; it raises otherwise.
C23_ValidateReferences ==
    Returned("validate_references") =>
        IF ReferencesHold(call.rule_set) THEN ret = Ok(TRUE) ELSE ret.exc # "none"

C23_Witness ==
    /\ Returned("validate_references")
    /\ ret = Ok(TRUE)
    /\ Len(Get(call.rule_set, "rules", <<>>)) = 2
    /\ Get(call.rule_set.rules[1], "signal", << >>)
         = [type |-> "frame_range_ref", ref |-> [prefix |-> "phase:", rest |-> "p2"]]
    /\ Get(call.rule_set.rules[1], "feedback", <<>>) # <<>>

\* the phases that declare an explicit frame_range, in declaration order
WithFrameRange(phases) == Filter(phases, LAMBDA ph : "frame_range" \in DOMAIN ph)

\* the step name of the k-th step produced, numbered among the steps produced
StepNameAsClaimed(produced, k) ==
    IF "legacy_step_name" \in DOMAIN produced[k] THEN produced[k].legacy_step_name
    ELSE StepNames[k]

\* C24: build_step_ranges visits phases in declaration order, skips every
\* phase without an explicit frame_range, and for each remaining phase records
\* the inclusive frame sequence under its step name and maps its phase id to
\* that step name; phases without a declared legacy step name are numbered
\* sequentially from 1 (Step1, Step2, ...) among the steps produced.
C24_BuildStepRanges ==
    Returned("build_step_ranges") =>
        LET produced == WithFrameRange(Get(call.rule_set, "phases", <<>>)) IN
        /\ Keys(ret.val[2]) = [k \in 1..Len(produced) |-> produced[k].id]
        /\ \A k \in 1..Len(produced) :
              /\ ret.val[2][k].v = StepNameAsClaimed(produced, k)
              /\ \E e \in 1..Len(ret.val[1]) :
                    /\ ret.val[1][e].k = StepNameAsClaimed(produced, k)
                    /\ ret.val[1][e].v \in
                          {RangeList(produced[j].frame_range[1], produced[j].frame_range[2]) :
                              j \in {i \in 1..Len(produced) :
                                        StepNameAsClaimed(produced, i)
                                          = StepNameAsClaimed(produced, k)}}

\* the ids of the declared phases
DeclaredIds(rs) == {Get(rs, "phases", <<>>)[i].id : i \in 1..Len(Get(rs, "phases", <<>>))}

\* the phase's step name, or the phase id when it has none
StepNameOf(phase_id) ==
    IF HasKey(call.phase_id_to_step, phase_id) THEN Lookup(call.phase_id_to_step, phase_id)
    ELSE phase_id

RECURSIVE FailedRuleMessages(_, _)
\* the messages of the feedback of the failed rules among the first n
FailedRuleMessages(rules, n) ==
    IF n = 0 THEN <<>>
    ELSE FailedRuleMessages(rules, n - 1) \o
         (IF "passed" \in DOMAIN rules[n].v /\ rules[n].v.passed = FALSE
          THEN [i \in 1..Len(rules[n].v.feedback) |-> rules[n].v.feedback[i].message]
          ELSE <<>>)

\* text is the messages joined by single spaces
IsSpaceJoined(text, msgs) ==
    /\ Len(text) = 2 * Len(msgs) - 1
    /\ \A i \in 1..Len(msgs) : text[2 * i - 1] = msgs[i]
    /\ \A i \in 1..(Len(msgs) - 1) : text[2 * i] = " "

\* the legacy entry renders the phase result as claimed
RendersPhaseResult(entry, phase_result) ==
    LET rules == Get(phase_result, "Rules", <<>>)
        msgs == FailedRuleMessages(rules, Len(rules))
    IN  /\ \A key \in {"Score", "StepClassification"} :
              key \in DOMAIN phase_result =>
                  HasKey(entry, key) /\ Lookup(entry, key) = phase_result[key]
        /\ \A r \in 1..Len(rules) :
              LET label == IF Get(rules[r].v, "label", "None") = "None" THEN rules[r].k
                           ELSE rules[r].v.label
              IN  /\ HasKey(entry, label)
                  /\ Lookup(entry, label) =
                        IF "passed" \notin DOMAIN rules[r].v THEN "Unknown"
                        ELSE IF rules[r].v.passed THEN "Correct" ELSE "Too different"
        /\ IF msgs = <<>> THEN ~HasKey(entry, "Feedback")
           ELSE HasKey(entry, "Feedback") /\ IsSpaceJoined(Lookup(entry, "Feedback"), msgs)

====
